---- MODULE Spec2Model ----
(***************************************************************************)
(* A model of medialab/xsv (xan): the expression-driven row-transform      *)
(* runner (src/src/cmd/moonblade.rs), the agg command (src/src/cmd/agg.rs),*)
(* the dispatcher's exit codes (src/src/main.rs) around the select command *)
(* (src/src/cmd/select.rs), the groupby and top commands, the graph        *)
(* builder (src/src/graph.rs), the get and slice functions                 *)
(* (src/src/xan/functions.rs), tokenize (src/src/cmd/tokenize.rs) and the  *)
(* expression parser (src/src/xan/parser.rs).                              *)
(***************************************************************************)
EXTENDS Integers, Sequences, FiniteSets, Bags, TLC

VARIABLES
    px,          \* the expression parser: [pc, shape, input, result]
    gr,          \* GraphBuilder, and the Graph and output once built
    fx,          \* a call of a scalar function: [pc, name, args, result]
    tk,          \* tokenize: [args, input, pc, read, out, result]
    gb,          \* groupby: [args, input, pc, read, groups, current, out]
    tp,          \* top: [args, input, pc, read, groups, out]
    s_args,      \* select: the command line (command token, selection, -n)
    s_input,     \* select: the records of the input file
    s_pc,        \* main/select: position
    s_sel,       \* select: the resolved selection (column indices)
    s_read,      \* select: data records read so far
    s_out,       \* select: the records written
    s_cause,     \* what went wrong in the environment or the command line
    s_result,    \* the CliResult cmd.run() returned
    s_exit,      \* the process exit: [code, stderr]
    a_args,      \* agg: the parsed Args
    a_input,     \* agg: the data records of the input, in file order
    a_pc,        \* agg: position of run
    a_read,      \* agg: records read so far
    a_busy,      \* agg: per worker thread, the (index, record) it is running
    a_program,   \* agg: the rows accumulated by the original program
    a_local,     \* agg: per worker thread, its thread-local clone (if any)
    a_out,       \* agg: the records written to the output
    a_diag,      \* agg: the row-numbered messages shown to the user
    a_result,    \* agg: the CliResult of run
    m_args,      \* MoonbladeCmdArgs of the run
    m_input,     \* the input file: [headers, rows]
    m_pc,        \* position of run_moonblade_cmd
    m_replace,   \* column_to_replace: Option<usize>
    m_read,      \* rows read so far (the next enumerate() index)
    m_pending,   \* indices dispatched to workers and not yet evaluated
    m_results,   \* evaluated rows waiting for the consumer: index -> result
    m_next,      \* the index the consumer hands to handle_eval_result next
    m_out,       \* the records written to the output, in order
    m_diag,      \* the row-numbered messages shown to the user
    m_result     \* the CliResult of the run

moonVars == <<m_args, m_input, m_pc, m_replace, m_read, m_pending, m_results,
              m_next, m_out, m_diag, m_result>>

aggVars == <<a_args, a_input, a_pc, a_read, a_busy, a_program, a_local, a_out,
             a_diag, a_result>>

mainVars == <<s_args, s_input, s_pc, s_sel, s_read, s_out, s_cause, s_result,
              s_exit>>

vars == <<moonVars, aggVars, mainVars, gb, tp, gr, fx, tk, px>>

\* What each command leaves alone: the state of the other commands.
notMoon == <<aggVars, mainVars, gb, tp, gr, fx, tk, px>>

notAgg == <<moonVars, mainVars, gb, tp, gr, fx, tk, px>>

notMain == <<moonVars, aggVars, gb, tp, gr, fx, tk, px>>

notGroupby == <<moonVars, aggVars, mainVars, tp, gr, fx, tk, px>>

notTop == <<moonVars, aggVars, mainVars, gb, gr, fx, tk, px>>

notGraph == <<moonVars, aggVars, mainVars, gb, tp, fx, tk, px>>

notCall == <<moonVars, aggVars, mainVars, gb, tp, gr, tk, px>>

notTokenize == <<moonVars, aggVars, mainVars, gb, tp, gr, fx, px>>

notParse == <<moonVars, aggVars, mainVars, gb, tp, gr, fx, tk>>

(***************************************************************************)
(* Bounds                                                                  *)
(***************************************************************************)
MaxRows == 2

\* Worker threads of the rayon pool.
NumThreads == 2

\* The most data rows of an input of groupby.
MaxGroupRows == 3

\* The most data rows of an input of top.
MaxTopRows == 3

\* The most records of an input of tokenize.
MaxTokenizeRows == 2

\* The greatest length of the strings and lists given to get and slice.
MaxSeqLen == 3

\* The most calls of the graph builder's operations before build().
MaxGraphCalls == 5

(***************************************************************************)
(* Option<T> is a set with at most one element.                            *)
(***************************************************************************)
None == {}

Some(x) == {x}

unwrap(o) == CHOOSE x \in o : TRUE

(***************************************************************************)
(* Cells are sequences of characters; records are sequences of cells.      *)
(***************************************************************************)
Empty == <<>>

CellA == <<"a">>

CellB == <<"b">>

CellC == <<"c">>

CellR == <<"r">>

CellErrCol == <<"e","r","r">>

CellK == <<"k">>

CellX == <<"x">>

CellXY == <<"x", "|", "y">>

CellBang == <<"!">>

ErrMsg == <<"b","o","o","m">>

\* The cells the first column of a data row is drawn from.
CellValues == {Empty, CellX, CellXY, CellBang}

InputHeaders == <<CellA, CellB>>

Row(c) == <<c, CellK>>

RECURSIVE SeqsUpTo(_, _)
SeqsUpTo(S, n) ==
    IF n = 0 THEN {<<>>}
    ELSE LET shorter == SeqsUpTo(S, n - 1)
         IN  shorter \cup {Append(s, x) : s \in {t \in shorter : Len(t) = n - 1}, x \in S}

InputRows == SeqsUpTo({Row(c) : c \in CellValues}, MaxRows)

(***************************************************************************)
(* ByteRecord operations (0-based indices, as in the code).                *)
(***************************************************************************)
push_field(record, cell) == Append(record, cell)

append(record, cell) == Append(record, cell)

replace_at(record, idx, cell) ==
    [k \in 1..Len(record) |-> IF k = idx + 1 THEN cell ELSE record[k]]

(***************************************************************************)
(* DynamicValue: a string, or a list of strings.                           *)
(***************************************************************************)
StrValue(c) == [list |-> FALSE, items |-> <<c>>]

ListValue(cs) == [list |-> TRUE, items |-> cs]

RECURSIVE SplitPipe(_, _, _)
\* split(cell, "|"): acc is the list so far, cur the element being read.
SplitPipe(cell, acc, cur) ==
    IF cell = <<>> THEN Append(acc, cur)
    ELSE IF Head(cell) = "|" THEN SplitPipe(Tail(cell), Append(acc, cur), <<>>)
    ELSE SplitPipe(Tail(cell), acc, Append(cur, Head(cell)))

RECURSIVE JoinPipe(_)
JoinPipe(items) ==
    IF items = <<>> THEN <<>>
    ELSE IF Len(items) = 1 THEN items[1]
    ELSE items[1] \o <<"|">> \o JoinPipe(Tail(items))

is_truthy(value) ==
    IF value.list THEN value.items # <<>> ELSE value.items[1] # <<>>

is_falsey(value) == ~is_truthy(value)

flat_iter(value) == value.items

serialize_as_bytes(value) ==
    IF value.list THEN JoinPipe(value.items) ELSE value.items[1]

(***************************************************************************)
(* The expression program.  The expression of a run reads the first column *)
(* of the record: "!" makes it call err(), a cell holding "|" is split     *)
(* into a list, any other cell is returned as a string.                    *)
(***************************************************************************)
ExprKinds == {"valid", "syntax", "unknown_column", "unknown_function", "arity"}

\* pipeline(): all_consuming fails on a syntactically invalid expression.
pipeline(expr) == IF expr = "syntax" THEN [ok |-> FALSE] ELSE [ok |-> TRUE]

\* Identifiers are resolved against the headers when the program is built.
resolve_columns(expr) == IF expr = "unknown_column" THEN [ok |-> FALSE] ELSE [ok |-> TRUE]

\* Program::parse(&map_expr, &headers)
Program_parse(expr) ==
    IF ~pipeline(expr).ok THEN [ok |-> FALSE]
    ELSE IF ~resolve_columns(expr).ok THEN [ok |-> FALSE]
    ELSE [ok |-> TRUE]

EvalOk(value) == [ok |-> TRUE, value |-> value, err |-> <<>>]

EvalErr(msg) == [ok |-> FALSE, value |-> StrValue(<<>>), err |-> msg]

\* call(name, args): the function is looked up by name, and its arity is
\* validated, when it is called on a row.
call(expr, cell) ==
    IF expr = "unknown_function" THEN EvalErr(<<"u","f">>)
    ELSE IF expr = "arity" THEN EvalErr(<<"a","r">>)
    ELSE IF cell = CellBang THEN EvalErr(ErrMsg)
    ELSE IF \E k \in 1..Len(cell) : cell[k] = "|" THEN EvalOk(ListValue(SplitPipe(cell, <<>>, <<>>)))
    ELSE EvalOk(StrValue(cell))

\* program.run_with_record(i, &record)
run_with_record(expr, i, record) == call(expr, record[1])

(***************************************************************************)
(* MoonbladeMode and MoonbladeErrorPolicy                                  *)
(***************************************************************************)
Modes == {"Map", "Foreach", "Filter", "Transform", "Flatmap"}

Policies == {"Panic", "Report", "Ignore", "Log"}

is_map(mode) == mode = "Map"

is_flatmap(mode) == mode = "Flatmap"

is_transform(mode) == mode = "Transform"

cannot_report(mode) == mode \in {"Filter", "Flatmap", "Foreach"}

will_report(policy) == policy = "Report"

(***************************************************************************)
(* handle_eval_result: Ok(records_to_emit), Err(message) or a panic of the *)
(* process (unwrap of None, unreachable!()).                               *)
(***************************************************************************)
Emit(records, log) == [status |-> "ok", emit |-> records, log |-> log]

Failed(msg) == [status |-> "err", emit |-> <<>>, log |-> <<msg>>]

Crashed(log) == [status |-> "crash", emit |-> <<>>, log |-> log]

\* "Row n°{}: {}" with the number the code prints.
RowMessage(kind, n) == [kind |-> kind, row |-> n]

\* The Err arm for Map and Transform: the value cell is left empty and
\* `extra` holds the fields pushed after it.
EmitEmptyValue(args, record, replace, extra, log) ==
    IF is_map(args.mode) THEN Emit(<<push_field(record, Empty) \o extra>>, log)
    ELSE IF is_transform(args.mode) THEN
        IF replace = None THEN Crashed(log)
        ELSE Emit(<<replace_at(record, unwrap(replace), Empty) \o extra>>, log)
    ELSE Emit(<<>>, log)

\* Mutant of should_emit: the inversion flag is not applied.
should_emit_never_inverted(invert, value) == is_truthy(value)

\* Lines 931-935: whether Filter keeps the row.
should_emit(invert, value) ==
    IF invert THEN ~is_truthy(value) ELSE is_truthy(value)

\* Mutant of flatmap_record: the cell replaces the column and is appended
\* as well.
flatmap_record_both(record, replace, cell) ==
    IF replace # None
    THEN append(replace_at(record, unwrap(replace), cell), cell)
    ELSE append(record, cell)

\* The Flatmap arm, lines 966-970: the record emitted for one subvalue.
flatmap_record(record, replace, cell) ==
    IF replace # None
    THEN replace_at(record, unwrap(replace), cell)
    ELSE append(record, cell)

handle_eval_result(args, index, record, eval_result, replace) ==
    IF eval_result.ok THEN
        LET value == eval_result.value
            pad   == IF will_report(args.error_policy) THEN <<Empty>> ELSE <<>>
        IN  CASE args.mode = "Filter" ->
                    Emit(IF should_emit(args.invert, value) THEN <<record>> ELSE <<>>, <<>>)
              [] args.mode = "Map" ->
                    Emit(<<push_field(record, serialize_as_bytes(value)) \o pad>>, <<>>)
              [] args.mode = "Foreach" -> Emit(<<>>, <<>>)
              [] args.mode = "Transform" ->
                    IF replace = None THEN Crashed(<<>>)
                    ELSE Emit(<<replace_at(record, unwrap(replace), serialize_as_bytes(value)) \o pad>>, <<>>)
              [] args.mode = "Flatmap" ->
                    IF is_falsey(value) THEN Emit(<<>>, <<>>)
                    ELSE LET subvalues == flat_iter(value)
                         IN  Emit([k \in 1..Len(subvalues) |->
                                     flatmap_record(record, replace, subvalues[k])], <<>>)
    ELSE
        CASE args.error_policy = "Ignore" -> EmitEmptyValue(args, record, replace, <<>>, <<>>)
          [] args.error_policy = "Report" ->
                IF cannot_report(args.mode) THEN Crashed(<<>>)
                ELSE EmitEmptyValue(args, record, replace, <<eval_result.err>>, <<>>)
          [] args.error_policy = "Log" ->
                EmitEmptyValue(args, record, replace, <<>>, <<RowMessage("log", index + 1)>>)
          [] args.error_policy = "Panic" -> Failed(RowMessage("abort", index + 1))

(***************************************************************************)
(* run_moonblade_cmd                                                       *)
(***************************************************************************)
\* rconfig.single_selection(&headers): the index of the one column the
\* selector names; an error when it names none, or more than one.
single_selection(name, headers) ==
    LET idx == {k - 1 : k \in {j \in 1..Len(headers) : headers[j] = name}}
    IN  IF Cardinality(idx) = 1 THEN [ok |-> TRUE, idx |-> unwrap(idx)]
        ELSE [ok |-> FALSE, idx |-> 0]

\* rdr.byte_headers(): the first record of the file (empty for an empty file).
byte_headers(file) == IF file = <<>> THEN <<>> ELSE Head(file)

\* The records the reader yields after the header handling.
DataRows(args, file) ==
    IF args.no_headers \/ file = <<>> THEN file ELSE Tail(file)

HeaderPlan(ok, modified, write, replace) ==
    [ok |-> ok, modified_headers |-> modified, must_write_headers |-> write,
     column_to_replace |-> replace]

\* The error column pushed under the Report policy.
WithErrorColumn(args, modified) ==
    IF will_report(args.error_policy) /\ args.error_column_name # None
    THEN push_field(modified, unwrap(args.error_column_name))
    ELSE modified

\* Lines 1041-1093: headers, modified_headers, must_write_headers and
\* column_to_replace.
BuildHeaders(args, file) ==
    IF args.no_headers THEN HeaderPlan(TRUE, <<>>, FALSE, None)
    ELSE LET headers == byte_headers(file)
         IN  IF headers = <<>> THEN HeaderPlan(TRUE, headers, FALSE, None)
             ELSE IF is_map(args.mode) THEN
                 HeaderPlan(TRUE,
                     WithErrorColumn(args,
                         IF args.target_column # None
                         THEN push_field(headers, unwrap(args.target_column))
                         ELSE headers),
                     TRUE, None)
             ELSE IF is_transform(args.mode) /\ args.target_column # None THEN
                 LET sel == single_selection(unwrap(args.target_column), headers)
                 IN  IF ~sel.ok THEN HeaderPlan(FALSE, headers, FALSE, None)
                     ELSE HeaderPlan(TRUE,
                             WithErrorColumn(args,
                                 IF args.rename_column # None
                                 THEN replace_at(headers, sel.idx, unwrap(args.rename_column))
                                 ELSE headers),
                             TRUE, Some(sel.idx))
             ELSE IF is_flatmap(args.mode) /\ args.rename_column # None THEN
                 LET sel == single_selection(unwrap(args.rename_column), headers)
                 IN  IF ~sel.ok THEN HeaderPlan(FALSE, headers, FALSE, None)
                     ELSE HeaderPlan(TRUE,
                             WithErrorColumn(args,
                                 IF args.target_column # None
                                 THEN replace_at(headers, sel.idx, unwrap(args.target_column))
                                 ELSE headers),
                             TRUE, Some(sel.idx))
             ELSE IF is_flatmap(args.mode) /\ args.target_column # None THEN
                 HeaderPlan(TRUE,
                     WithErrorColumn(args, push_field(headers, unwrap(args.target_column))),
                     TRUE, None)
             ELSE HeaderPlan(TRUE, WithErrorColumn(args, headers), TRUE, None)

\* The argument combinations of the runs explored.
TargetColumns(mode) ==
    CASE mode = "Map" -> {None, Some(CellC)}
      [] mode = "Transform" -> {None, Some(CellA), Some(CellB), Some(CellC)}
      [] mode = "Flatmap" -> {None, Some(CellC)}
      [] OTHER -> {None}

RenameColumns(mode, target) ==
    CASE mode = "Transform" /\ target # None -> {None, Some(CellR)}
      [] mode = "Flatmap" -> {None, Some(CellA)}
      [] OTHER -> {None}

MoonArgsOf(exprs) ==
    {a \in [mode : Modes, invert : BOOLEAN, error_policy : Policies,
            parallelization : BOOLEAN, no_headers : BOOLEAN,
            target_column : {None, Some(CellA), Some(CellB), Some(CellC)},
            rename_column : {None, Some(CellA), Some(CellR)},
            error_column_name : {None, Some(CellErrCol)},
            map_expr : exprs] :
        /\ a.invert => a.mode = "Filter"
        /\ a.target_column \in TargetColumns(a.mode)
        /\ a.rename_column \in RenameColumns(a.mode, a.target_column)
        /\ a.error_column_name # None => will_report(a.error_policy)}

InputFiles == {<<>>} \cup {<<InputHeaders>> \o rows : rows \in InputRows}

MoonInitWith(exprs) ==
    /\ m_args \in MoonArgsOf(exprs)
    /\ m_input \in InputFiles
    /\ m_pc = "start"
    /\ m_replace = None
    /\ m_read = 0
    /\ m_pending = {}
    /\ m_results = {}
    /\ m_next = 0
    /\ m_out = <<>>
    /\ m_diag = <<>>
    /\ m_result = "running"

\* The agg command is not running.
AggIdle ==
    /\ a_args = <<>>
    /\ a_input = <<>>
    /\ a_pc = "idle"
    /\ a_read = 0
    /\ a_busy = <<>>
    /\ a_program = <<>>
    /\ a_local = <<>>
    /\ a_out = <<>>
    /\ a_diag = <<>>
    /\ a_result = "idle"

\* The groupby and top commands are not running.
GroupbyIdle == gb = [pc |-> "idle"]

TopIdle == tp = [pc |-> "idle"]

GraphIdle == gr = [pc |-> "idle"]

CallIdle == fx = [pc |-> "idle"]

TokenizeIdle == tk = [pc |-> "idle"]

ParseIdle == px = [pc |-> "idle"]

\* The graph builder, the function calls and tokenize are not running.
OthersIdle == GraphIdle /\ CallIdle /\ TokenizeIdle /\ ParseIdle

\* The dispatcher is not running.
MainIdle ==
    /\ s_args = <<>>
    /\ s_input = <<>>
    /\ s_pc = "idle"
    /\ s_sel = <<>>
    /\ s_read = 0
    /\ s_out = <<>>
    /\ s_cause = "idle"
    /\ s_result = <<>>
    /\ s_exit = <<>>

MoonInit == MoonInitWith({"valid"}) /\ AggIdle /\ MainIdle /\ GroupbyIdle /\ TopIdle /\ OthersIdle

MoonData == DataRows(m_args, m_input)

\* Lines 1034-1099: the headers are prepared, the program is compiled and
\* the header record is written.
MoonStart ==
    /\ UNCHANGED notMoon
    /\ m_pc = "start"
    /\ LET plan == BuildHeaders(m_args, m_input)
       IN  IF ~plan.ok \/ ~Program_parse(m_args.map_expr).ok
           THEN /\ m_pc' = "done"
                /\ m_result' = "Other"
                /\ UNCHANGED <<m_replace, m_out>>
           ELSE /\ m_pc' = IF m_args.parallelization THEN "par" ELSE "seq"
                /\ m_replace' = plan.column_to_replace
                /\ m_out' = IF plan.must_write_headers
                            THEN <<plan.modified_headers>> ELSE <<>>
                /\ UNCHANGED m_result
    /\ UNCHANGED <<m_args, m_input, m_read, m_pending, m_results, m_next, m_diag>>

\* What the writer loop does with one evaluated row (both paths):
\* handle_eval_result(...)? and a write of every record to emit.
Consume(index, record, eval_result) ==
    LET h == handle_eval_result(m_args, index, record, eval_result, m_replace)
    IN  /\ m_diag' = m_diag \o h.log
        /\ m_out' = m_out \o h.emit
        /\ IF h.status = "ok" THEN UNCHANGED <<m_pc, m_result>>
           ELSE /\ m_pc' = "done"
                /\ m_result' = IF h.status = "err" THEN "Other" ELSE "crash"

\* Lines 1141-1152: one turn of the sequential loop.
MoonSeqRow ==
    /\ UNCHANGED notMoon
    /\ m_pc = "seq"
    /\ m_read < Len(MoonData)
    /\ LET record == MoonData[m_read + 1]
       IN  Consume(m_read, record, run_with_record(m_args.map_expr, m_read, record))
    /\ m_read' = m_read + 1
    /\ UNCHANGED <<m_args, m_input, m_replace, m_pending, m_results, m_next>>

\* Line 1154: the input is exhausted, the writer is flushed.
MoonSeqEnd ==
    /\ UNCHANGED notMoon
    /\ m_pc = "seq"
    /\ m_read = Len(MoonData)
    /\ m_pc' = "done"
    /\ m_result' = "Ok"
    /\ UNCHANGED <<m_args, m_input, m_replace, m_read, m_pending, m_results,
                   m_next, m_out, m_diag>>

\* Lines 1102-1103: the reader numbers the next record and hands it to the
\* worker pool.
MoonParRead ==
    /\ UNCHANGED notMoon
    /\ m_pc = "par"
    /\ m_read < Len(MoonData)
    /\ m_pending' = m_pending \cup {m_read}
    /\ m_read' = m_read + 1
    /\ UNCHANGED <<m_args, m_input, m_pc, m_replace, m_results, m_next, m_out,
                   m_diag, m_result>>

\* Lines 1112-1122: a worker evaluates one dispatched record, in any order.
MoonParEval ==
    /\ UNCHANGED notMoon
    /\ m_pc = "par"
    /\ \E i \in m_pending :
        LET record == MoonData[i + 1]
        IN  /\ m_pending' = m_pending \ {i}
            /\ m_results' = m_results \cup
                 {[i |-> i, record |-> record,
                   eval_result |-> run_with_record(m_args.map_expr, i, record)]}
    /\ UNCHANGED <<m_args, m_input, m_pc, m_replace, m_read, m_next, m_out,
                   m_diag, m_result>>

\* Mutant of Deliverable: results are handed over as workers complete them.
DeliverableAsCompleted(results, next) == results

\* parallel_map_custom yields the results in the order of its input.
Deliverable(results, next) == {r \in results : r.i = next}

\* Lines 1124-1133: the consumer takes the next result and writes its rows.
MoonParWrite ==
    /\ UNCHANGED notMoon
    /\ m_pc = "par"
    /\ \E r \in Deliverable(m_results, m_next) :
        /\ Consume(r.i, r.record, r.eval_result)
        /\ m_results' = m_results \ {r}
    /\ m_next' = m_next + 1
    /\ UNCHANGED <<m_args, m_input, m_replace, m_read, m_pending>>

\* Line 1135: every result was consumed, the writer is flushed.
MoonParEnd ==
    /\ UNCHANGED notMoon
    /\ m_pc = "par"
    /\ m_read = Len(MoonData)
    /\ m_pending = {}
    /\ m_results = {}
    /\ m_pc' = "done"
    /\ m_result' = "Ok"
    /\ UNCHANGED <<m_args, m_input, m_replace, m_read, m_pending, m_results,
                   m_next, m_out, m_diag>>

MoonNext ==
    \/ MoonStart
    \/ MoonSeqRow
    \/ MoonSeqEnd
    \/ MoonParRead
    \/ MoonParEval
    \/ MoonParWrite
    \/ MoonParEnd

SpecMoon == MoonInit /\ [][MoonNext]_vars

(***************************************************************************)
(* C1: parallel and sequential runs write the same rows in the same order. *)
(***************************************************************************)
RECURSIVE SequentialRows(_, _, _, _)
\* The rows the sequential loop writes from row i on, and how it ends.
SequentialRows(args, replace, data, i) ==
    IF i = Len(data) THEN [out |-> <<>>, result |-> "Ok"]
    ELSE LET h == handle_eval_result(args, i, data[i + 1],
                      run_with_record(args.map_expr, i, data[i + 1]), replace)
         IN  IF h.status = "ok"
             THEN LET rest == SequentialRows(args, replace, data, i + 1)
                  IN  [out |-> h.emit \o rest.out, result |-> rest.result]
             ELSE [out |-> h.emit,
                   result |-> IF h.status = "err" THEN "Other" ELSE "crash"]

\* The whole output of the run of `args` over `file` without parallelization.
SequentialRun(args, file) ==
    LET plan == BuildHeaders(args, file)
    IN  IF ~plan.ok \/ ~Program_parse(args.map_expr).ok
        THEN [out |-> <<>>, result |-> "Other"]
        ELSE LET rows == SequentialRows(args, plan.column_to_replace,
                                        DataRows(args, file), 0)
             IN  [out |-> (IF plan.must_write_headers
                           THEN <<plan.modified_headers>> ELSE <<>>) \o rows.out,
                  result |-> rows.result]

IsPrefix(s, t) == Len(s) <= Len(t) /\ SubSeq(t, 1, Len(s)) = s

\* C1: whatever the order in which the workers complete the rows, a run
\* with parallelization writes, in the same order, exactly the records the
\* sequential run of the same arguments over the same input writes (and at
\* every moment a prefix of them), and ends the same way.
C1_ParallelMatchesSequential ==
    LET seq == SequentialRun([m_args EXCEPT !.parallelization = FALSE], m_input)
    IN  /\ IsPrefix(m_out, seq.out)
        /\ m_pc = "done" => m_out = seq.out /\ m_result = seq.result

\* A parallel run that wrote a header and two different data rows.
C1_Witness ==
    /\ m_args.parallelization
    /\ m_pc = "done"
    /\ m_result = "Ok"
    /\ Len(m_out) = 3
    /\ m_out[2] # m_out[3]

\* The same runner started on any expression, invalid ones included.
MoonInitAnyExpr ==
    MoonInitWith(ExprKinds) /\ AggIdle /\ MainIdle /\ GroupbyIdle /\ TopIdle /\ OthersIdle

SpecCompile == MoonInitAnyExpr /\ [][MoonNext]_vars

(***************************************************************************)
(* Views of a run used by the properties below.                            *)
(***************************************************************************)
\* Whether the run wrote a header record before the data rows.
HeaderWritten == m_pc # "start" /\ ~m_args.no_headers /\ m_input # <<>>

\* The data records written so far.
DataOut == IF HeaderWritten /\ m_out # <<>> THEN Tail(m_out) ELSE m_out

\* The number of rows handed to handle_eval_result so far.
Handled == IF m_args.parallelization THEN m_next ELSE m_read

\* A step of the run in which row number i (0-based) is handled.
Handles(i) ==
    \/ m_pc = "seq" /\ m_read = i /\ m_read' = i + 1
    \/ m_pc = "par" /\ m_next = i /\ m_next' = i + 1

\* The cells on which the expression of the run fails.
FailsOn(record) == record[1] = CellBang

RECURSIVE SelectSeq2(_, _)
\* The records of rows kept by a filter that keeps non-empty first cells
\* (or, inverted, the empty ones); a failing row yields nothing.
SelectSeq2(rows, invert) ==
    IF rows = <<>> THEN <<>>
    ELSE LET r    == Head(rows)
             keep == ~FailsOn(r) /\ ((r[1] # Empty) # invert)
         IN  (IF keep THEN <<r>> ELSE <<>>) \o SelectSeq2(Tail(rows), invert)

(***************************************************************************)
(* C10: Filter keeps a row, unchanged, iff its value is truthy (inverted   *)
(* when asked).                                                            *)
(***************************************************************************)
\* C10: in Filter mode the data rows written are, at every moment, exactly
\* the handled input rows whose value is truthy (falsey when the inversion
\* flag is set), each once, in input order and with its fields unchanged;
\* a row that is dropped, or whose evaluation fails, adds nothing.
C10_FilterKeepsTruthyRowsUnchanged ==
    (m_args.mode = "Filter" /\ m_pc # "start") =>
        DataOut = SelectSeq2(SubSeq(MoonData, 1, Handled), m_args.invert)

\* A finished Filter run that kept one row and dropped another.
C10_Witness ==
    /\ m_args.mode = "Filter"
    /\ m_pc = "done"
    /\ m_result = "Ok"
    /\ Len(MoonData) = 2
    /\ Len(DataOut) = 1

(***************************************************************************)
(* C11: Flatmap writes one row per element of the flattened value.         *)
(***************************************************************************)
\* The flattened view of the value the expression gives for a first cell:
\* nothing for the empty string, x and y for "x|y", the cell otherwise.
FlatElements(cell) ==
    IF cell = Empty THEN <<>>
    ELSE IF cell = CellXY THEN <<CellX, <<"y">>>>
    ELSE <<cell>>

\* C11: in Flatmap mode the step that handles a row whose evaluation
\* succeeds writes nothing when the value is falsey, and otherwise one row
\* per element of the flattened value, in element order, each the input row
\* with the element in place of the column to replace when there is one
\* (same number of fields), and with the element as a new last field when
\* there is none (one field more).
C11_FlatmapOneRowPerElement ==
    [][\A i \in 0..(Len(MoonData) - 1) :
         (/\ Handles(i)
          /\ m_args.mode = "Flatmap"
          /\ ~FailsOn(MoonData[i + 1]))
         => LET row == MoonData[i + 1]
                E   == FlatElements(row[1])
            IN  m_out' = m_out \o
                  [k \in 1..Len(E) |->
                     IF m_replace # None
                     THEN [row EXCEPT ![unwrap(m_replace) + 1] = E[k]]
                     ELSE row \o <<E[k]>>]]_vars

\* A finished Flatmap run with a column to replace over a row whose value
\* is the list x, y and a row whose value is falsey: two rows of two
\* fields were written.
C11_Witness ==
    /\ m_args.mode = "Flatmap"
    /\ m_pc = "done"
    /\ m_result = "Ok"
    /\ m_replace = Some(0)
    /\ MoonData = <<Row(CellXY), Row(Empty)>>
    /\ DataOut = <<<<CellX, CellK>>, <<<<"y">>, CellK>>>>

(***************************************************************************)
(* C6: what a failing row does in Map and Transform mode, per policy.      *)
(***************************************************************************)
\* The fields of `emitted` are those of `record` with the value cell empty:
\* a new last cell in Map mode, the target cell in Transform mode.
EmptyValueRow(emitted, record, extra) ==
    IF m_args.mode = "Map" THEN emitted = Append(record, Empty) \o extra
    ELSE \E k \in 1..Len(record) :
            emitted = [record EXCEPT ![k] = Empty] \o extra

\* C6 as claimed: a row whose evaluation fails in Map or Transform mode is
\* written with an empty value cell and the run goes on under Ignore, Log
\* (one diagnostic line more) and Report (the message in the error column);
\* under Panic nothing is written and the run ends with an error.
C6_FailedRowPerPolicy ==
    [][\A i \in 0..(Len(MoonData) - 1) :
         (/\ Handles(i)
          /\ m_args.mode \in {"Map", "Transform"}
          /\ FailsOn(MoonData[i + 1]))
         => CASE m_args.error_policy \in {"Ignore", "Log"} ->
                    /\ Len(m_out') = Len(m_out) + 1
                    /\ EmptyValueRow(m_out'[Len(m_out')], MoonData[i + 1], <<>>)
                    /\ m_pc' = m_pc
                    /\ (m_args.error_policy = "Log") = (Len(m_diag') = Len(m_diag) + 1)
              [] m_args.error_policy = "Report" ->
                    /\ Len(m_out') = Len(m_out) + 1
                    /\ EmptyValueRow(m_out'[Len(m_out')], MoonData[i + 1], <<ErrMsg>>)
                    /\ m_pc' = m_pc
              [] m_args.error_policy = "Panic" ->
                    /\ m_out' = m_out
                    /\ m_pc' = "done"
                    /\ m_result' = "Other"]_vars

\* What holds of the code: the same, for Map and for a Transform run whose
\* column to replace was resolved.
C6_FailedRowPerPolicyWhenResolved ==
    [][\A i \in 0..(Len(MoonData) - 1) :
         (/\ Handles(i)
          /\ m_args.mode = "Transform" => m_replace # None
          /\ m_args.mode \in {"Map", "Transform"}
          /\ FailsOn(MoonData[i + 1]))
         => CASE m_args.error_policy \in {"Ignore", "Log"} ->
                    /\ Len(m_out') = Len(m_out) + 1
                    /\ EmptyValueRow(m_out'[Len(m_out')], MoonData[i + 1], <<>>)
                    /\ m_pc' = m_pc
                    /\ (m_args.error_policy = "Log") = (Len(m_diag') = Len(m_diag) + 1)
              [] m_args.error_policy = "Report" ->
                    /\ Len(m_out') = Len(m_out) + 1
                    /\ EmptyValueRow(m_out'[Len(m_out')], MoonData[i + 1], <<ErrMsg>>)
                    /\ m_pc' = m_pc
              [] m_args.error_policy = "Panic" ->
                    /\ m_out' = m_out
                    /\ m_pc' = "done"
                    /\ m_result' = "Other"]_vars

(***************************************************************************)
(* C8: compile errors are found once, before any row and any output.       *)
(***************************************************************************)
CompileErrorKinds == {"syntax", "unknown_column", "arity", "unknown_function"}

\* C8 as claimed: a run whose expression has a compile error (invalid
\* syntax, unknown column, wrong arity, unknown function) handles no row,
\* writes no header and no row, prints no per-row message, and ends in an
\* error whatever the error policy.
C8_CompileErrorFatalBeforeAnyRow ==
    m_args.map_expr \in CompileErrorKinds =>
        /\ m_out = <<>>
        /\ m_diag = <<>>
        /\ Handled = 0
        /\ m_pc = "done" => m_result = "Other"

\* What holds of the code: syntax errors and unknown columns are compile
\* errors of that kind.
C8_ParseErrorFatalBeforeAnyRow ==
    m_args.map_expr \in {"syntax", "unknown_column"} =>
        /\ m_out = <<>>
        /\ m_diag = <<>>
        /\ Handled = 0
        /\ m_pc = "done" => m_result = "Other"

(***************************************************************************)
(* The agg command (src/src/cmd/agg.rs).  The aggregation expression sums  *)
(* the only column; it fails on the cell "!".                              *)
(***************************************************************************)
Threads == 1..NumThreads

AggCells == {<<"1">>, <<"2">>, CellBang}

AggInputs == SeqsUpTo({<<c>> : c \in AggCells}, MaxRows)

AggArgs ==
    [flag_errors : {"panic", "ignore", "log", "report"},
     flag_parallel : BOOLEAN,
     doc : {"none", "aggs", "cheatsheet", "functions"},
     arg_expression : {"valid", "syntax"}]

\* The moonblade runner is not running.
MoonIdle ==
    /\ m_args = <<>>
    /\ m_input = <<>>
    /\ m_pc = "idle"
    /\ m_replace = None
    /\ m_read = 0
    /\ m_pending = {}
    /\ m_results = {}
    /\ m_next = 0
    /\ m_out = <<>>
    /\ m_diag = <<>>
    /\ m_result = "idle"

AggInit ==
    /\ a_args \in AggArgs
    /\ a_input \in AggInputs
    /\ a_pc = "start"
    /\ a_read = 0
    /\ a_busy = [t \in Threads |-> None]
    /\ a_program = EmptyBag
    /\ a_local = [t \in Threads |-> None]
    /\ a_out = <<>>
    /\ a_diag = <<>>
    /\ a_result = "running"
    /\ MoonIdle
    /\ MainIdle
    /\ GroupbyIdle
    /\ TopIdle
    /\ OthersIdle

\* MoonbladeErrorPolicy::try_from_restricted
try_from_restricted(value) ==
    CASE value = "panic" -> [ok |-> TRUE, policy |-> "Panic"]
      [] value = "ignore" -> [ok |-> TRUE, policy |-> "Ignore"]
      [] value = "log" -> [ok |-> TRUE, policy |-> "Log"]
      [] OTHER -> [ok |-> FALSE, policy |-> "Panic"]

AggPolicy == try_from_restricted(a_args.flag_errors).policy

\* MoonbladeErrorPolicy::handle_row_error: Ok(()) with what was printed, or
\* Err(error).
handle_row_error(policy, index) ==
    CASE policy = "Panic" -> [ok |-> FALSE, log |-> <<>>]
      [] policy = "Ignore" -> [ok |-> TRUE, log |-> <<>>]
      [] policy = "Log" -> [ok |-> TRUE, log |-> <<RowMessage("log", index)>>]

\* The number a cell holds.
CellNumber(cell) == IF cell = <<"1">> THEN 1 ELSE 2

\* AggregationProgram::run_with_record(index, &record): the row is
\* accumulated under its index, or the evaluation fails.
agg_run_with_record(program, index, record) ==
    IF record[1] = CellBang THEN [ok |-> FALSE, program |-> program]
    ELSE [ok |-> TRUE,
          program |-> program (+) SetToBag({[index |-> index,
                                            value |-> CellNumber(record[1])]})]

\* A mutant of merge: the other program replaces this one.
merge_replacing(program, other) == other

\* AggregationProgram::merge
merge(program, other) == program (+) other

RECURSIVE BagSum(_)
BagSum(bag) ==
    IF BagToSet(bag) = {} THEN 0
    ELSE LET e == CHOOSE x \in BagToSet(bag) : TRUE
         IN  e.value + BagSum(bag (-) SetToBag({e}))

\* AggregationProgram::finalize(parallel): the summary record.
finalize(program, parallel) ==
    [kind |-> "summary", count |-> BagCardinality(program), sum |-> BagSum(program)]

\* program.headers()
AggHeaders == [kind |-> "header"]

\* Lines 87-117: documentation flags, error policy, reader and writer, the
\* compiled program and the header record.
AggStart ==
    /\ UNCHANGED notAgg
    /\ a_pc = "start"
    /\ IF a_args.doc # "none"
       THEN a_pc' = "done" /\ a_result' = "Ok" /\ UNCHANGED a_out
       ELSE IF ~try_from_restricted(a_args.flag_errors).ok
                 \/ ~Program_parse(a_args.arg_expression).ok
       THEN a_pc' = "done" /\ a_result' = "Other" /\ UNCHANGED a_out
       ELSE /\ a_pc' = IF a_args.flag_parallel THEN "par" ELSE "seq"
            /\ a_out' = <<AggHeaders>>
            /\ UNCHANGED a_result
    /\ UNCHANGED <<a_args, a_input, a_read, a_busy, a_program, a_local, a_diag>>

\* Lines 123-129: one turn of the sequential loop.
AggSeqRow ==
    /\ UNCHANGED notAgg
    /\ a_pc = "seq"
    /\ a_read < Len(a_input)
    /\ LET index == a_read + 1
           run   == agg_run_with_record(a_program, index, a_input[a_read + 1])
           h     == handle_row_error(AggPolicy, index)
       IN  /\ a_program' = run.program
           /\ IF run.ok THEN UNCHANGED <<a_pc, a_result, a_diag>>
              ELSE /\ a_diag' = a_diag \o h.log
                   /\ IF h.ok THEN UNCHANGED <<a_pc, a_result>>
                      ELSE a_pc' = "done" /\ a_result' = "Other"
    /\ a_read' = a_read + 1
    /\ UNCHANGED <<a_args, a_input, a_busy, a_local, a_out>>

\* Lines 153-155 after the sequential loop: finalize(false), write, flush.
AggSeqEnd ==
    /\ UNCHANGED notAgg
    /\ a_pc = "seq"
    /\ a_read = Len(a_input)
    /\ a_out' = Append(a_out, finalize(a_program, FALSE))
    /\ a_pc' = "done"
    /\ a_result' = "Ok"
    /\ UNCHANGED <<a_args, a_input, a_read, a_busy, a_program, a_local, a_diag>>

\* Lines 133-135: a free worker pulls the next enumerated record from the
\* bridged iterator.
AggParTake ==
    /\ UNCHANGED notAgg
    /\ a_pc = "par"
    /\ a_read < Len(a_input)
    /\ \E t \in Threads :
        /\ a_busy[t] = None
        /\ a_busy' = [a_busy EXCEPT ![t] =
                        Some([index |-> a_read, record |-> a_input[a_read + 1]])]
    /\ a_read' = a_read + 1
    /\ UNCHANGED <<a_args, a_input, a_pc, a_program, a_local, a_out, a_diag, a_result>>

\* Lines 136-146: the worker runs its record on its thread-local clone of
\* the program (cloned on first use).
AggParRun ==
    /\ UNCHANGED notAgg
    /\ a_pc = "par"
    /\ \E t \in Threads :
        /\ a_busy[t] # None
        /\ LET item  == unwrap(a_busy[t])
               local == IF a_local[t] = None THEN a_program ELSE unwrap(a_local[t])
               run   == agg_run_with_record(local, item.index, item.record)
               h     == handle_row_error(AggPolicy, item.index)
           IN  /\ a_local' = [a_local EXCEPT ![t] = Some(run.program)]
               /\ a_busy' = [a_busy EXCEPT ![t] = None]
               /\ IF run.ok THEN UNCHANGED <<a_pc, a_result, a_diag>>
                  ELSE /\ a_diag' = a_diag \o h.log
                       /\ IF h.ok THEN UNCHANGED <<a_pc, a_result>>
                          ELSE a_pc' = "done" /\ a_result' = "Other"
    /\ UNCHANGED <<a_args, a_input, a_read, a_program, a_out>>

RECURSIVE MergeAll(_, _, _)
\* Lines 148-150: every thread-local program is merged into the original.
MergeAll(program, local, ts) ==
    IF ts = {} THEN program
    ELSE LET t == CHOOSE x \in ts : TRUE
         IN  MergeAll(IF local[t] = None THEN program
                      ELSE merge(program, unwrap(local[t])),
                      local, ts \ {t})

\* Mutant of AggParEnd: every thread-local program is finalized and written
\* on its own instead of being merged first.
AggParEndPerThread ==
    /\ UNCHANGED notAgg
    /\ a_pc = "par"
    /\ a_read = Len(a_input)
    /\ \A t \in Threads : a_busy[t] = None
    /\ a_program' = a_program
    /\ a_local' = [t \in Threads |-> None]
    /\ a_out' = a_out \o [t \in Threads |->
                    finalize(IF a_local[t] = None THEN a_program
                             ELSE unwrap(a_local[t]), TRUE)]
    /\ a_pc' = "done"
    /\ a_result' = "Ok"
    /\ UNCHANGED <<a_args, a_input, a_read, a_busy, a_diag>>

\* Lines 148-155: the stream is exhausted and every worker is done: merge,
\* finalize(true), write, flush.
AggParEnd ==
    /\ UNCHANGED notAgg
    /\ a_pc = "par"
    /\ a_read = Len(a_input)
    /\ \A t \in Threads : a_busy[t] = None
    /\ a_program' = MergeAll(a_program, a_local, Threads)
    /\ a_local' = [t \in Threads |-> None]
    /\ a_out' = Append(a_out, finalize(a_program', TRUE))
    /\ a_pc' = "done"
    /\ a_result' = "Ok"
    /\ UNCHANGED <<a_args, a_input, a_read, a_busy, a_diag>>

AggNext ==
    \/ AggStart
    \/ AggSeqRow
    \/ AggSeqEnd
    \/ AggParTake
    \/ AggParRun
    \/ AggParEnd

SpecAgg == AggInit /\ [][AggNext]_vars

(***************************************************************************)
(* C5: a successful agg run writes one header and one summary record.      *)
(***************************************************************************)
\* C5: every agg run over an input (a run not diverted to print the
\* documentation) that ends successfully has written exactly two records,
\* the header and then the summary, whatever the number of rows, whether
\* row errors were swallowed by ignore or log, and on either path.
C5_OneHeaderOneSummary ==
    (a_pc = "done" /\ a_result = "Ok" /\ a_args.doc = "none") =>
        /\ Len(a_out) = 2
        /\ a_out[1].kind = "header"
        /\ a_out[2].kind = "summary"

\* A successful parallel run of two rows that logged a row error.
C5_Witness ==
    /\ a_pc = "done"
    /\ a_result = "Ok"
    /\ a_args.flag_parallel
    /\ a_args.flag_errors = "log"
    /\ Len(a_input) = 2
    /\ a_diag # <<>>
    /\ Len(a_out) = 2

(***************************************************************************)
(* C7: row numbers in user-facing messages are 1-based.                    *)
(***************************************************************************)
\* C7 as claimed: every row-numbered message (the Log line, the Panic abort
\* message) names the 1-based number of a data row whose evaluation failed,
\* in the row-transform runner and in agg, sequential or parallel.
C7_RowNumbersOneBased ==
    /\ \A k \in 1..Len(m_diag) :
          /\ m_diag[k].row \in 1..Len(MoonData)
          /\ FailsOn(MoonData[m_diag[k].row])
    /\ \A k \in 1..Len(a_diag) :
          /\ a_diag[k].row \in 1..Len(a_input)
          /\ FailsOn(a_input[a_diag[k].row])

\* What holds of the code: the numbers are 1-based in the row-transform
\* runner and on the sequential path of agg.
C7_RowNumbersOneBasedExceptParallelAgg ==
    /\ \A k \in 1..Len(m_diag) :
          /\ m_diag[k].row \in 1..Len(MoonData)
          /\ FailsOn(MoonData[m_diag[k].row])
    /\ a_pc # "idle" /\ ~a_args.flag_parallel =>
          \A k \in 1..Len(a_diag) :
             /\ a_diag[k].row \in 1..Len(a_input)
             /\ FailsOn(a_input[a_diag[k].row])

(***************************************************************************)
(* The dispatcher (src/src/main.rs) running the select command             *)
(* (src/src/cmd/select.rs).  Every fallible call may fail the way the      *)
(* environment can make it fail; s_cause records what happened.            *)
(***************************************************************************)
ByName(cell) == [by_name |-> TRUE, name |-> cell, idx |-> 0]

ByIndex(i) == [by_name |-> FALSE, name |-> Empty, idx |-> i]

\* The selections explored: a, "b,a", "a,a", an unknown name, 1, "1,0".
Selections ==
    {<<ByName(CellA)>>, <<ByName(CellB), ByName(CellA)>>,
     <<ByName(CellA), ByName(CellA)>>, <<ByName(CellC)>>,
     <<ByIndex(1)>>, <<ByIndex(1), ByIndex(0)>>}

SelectArgs ==
    [command : {"select", "Select"}, arg_selection : Selections,
     no_headers : BOOLEAN]

SelectInputs ==
    {<<>>} \cup {<<InputHeaders>> \o rows :
                    rows \in SeqsUpTo({Row(CellX), Row(Empty)}, MaxRows)}

MainInit ==
    /\ s_args \in SelectArgs
    /\ s_input \in SelectInputs
    /\ s_pc = "main"
    /\ s_sel = <<>>
    /\ s_read = 0
    /\ s_out = <<>>
    /\ s_cause = "none"
    /\ s_result = [variant |-> "running", kind |-> "none"]
    /\ s_exit = [code |-> -1, stderr |-> FALSE]
    /\ MoonIdle
    /\ AggIdle
    /\ GroupbyIdle
    /\ TopIdle
    /\ OthersIdle

\* csv::Error: a structural error, or a wrapped I/O error.
CsvStructural == [is_io |-> FALSE, kind |-> "UnequalLengths"]

CsvIo(kind) == [is_io |-> TRUE, kind |-> kind]

CliOk == [variant |-> "Ok", kind |-> "none"]

CliError(variant, kind) == [variant |-> variant, kind |-> kind]

\* impl From<docopt::Error> for CliError
From_docopt(err) ==
    IF err = "WithProgramUsage" THEN CliError("Other", "usage")
    ELSE CliError("Flag", err)

\* impl From<io::Error> for CliError
From_io(kind) == CliError("Io", kind)

\* Mutant of From_csv: a wrapped I/O error stays a CSV error.
From_csv_keeping_io(err) == CliError("Csv", err.kind)

\* impl From<csv::Error> for CliError
From_csv(err) ==
    IF ~err.is_io THEN CliError("Csv", err.kind) ELSE From_io(err.kind)

\* impl From<String> for CliError
From_string(msg) == CliError("Other", msg)

\* docopt::Error::exit: a fatal error prints the message and exits 1, a
\* help or version request prints to stdout and exits 0.
docopt_exit(kind) ==
    IF kind \in {"Help", "Version"} THEN [code |-> 0, stderr |-> FALSE]
    ELSE [code |-> 1, stderr |-> TRUE]

\* main, lines 211-229: the exit code and whether a message goes to stderr.
main_exit(result) ==
    CASE result.variant = "Ok" -> [code |-> 0, stderr |-> FALSE]
      [] result.variant = "Flag" -> docopt_exit(result.kind)
      [] result.variant = "Csv" -> [code |-> 1, stderr |-> TRUE]
      [] result.variant = "Io" /\ result.kind = "BrokenPipe" ->
            [code |-> 0, stderr |-> FALSE]
      [] result.variant = "Io" -> [code |-> 1, stderr |-> TRUE]
      [] result.variant = "Other" -> [code |-> 1, stderr |-> TRUE]

\* Command::run, line 300: the command token is lowercase letters or '-'.
is_lowercase_command(command) == command = "select"

RECURSIVE selection(_, _, _)
\* rconfig.selection(&headers): the column index of every selector item,
\* or an error (unknown name, a name with --no-headers, index out of range).
selection(no_headers, sel, headers) ==
    IF sel = <<>> THEN [ok |-> TRUE, indices |-> <<>>]
    ELSE LET item == Head(sel)
             one  == IF item.by_name
                     THEN (IF no_headers THEN [ok |-> FALSE, idx |-> 0]
                           ELSE single_selection(item.name, headers))
                     ELSE [ok |-> item.idx < Len(headers), idx |-> item.idx]
             rest == selection(no_headers, Tail(sel), headers)
         IN  IF one.ok /\ rest.ok
             THEN [ok |-> TRUE, indices |-> <<one.idx>> \o rest.indices]
             ELSE [ok |-> FALSE, indices |-> <<>>]

\* Mutant of project: the first fields of the record, as many as selected.
project_by_position(sel, record) == [k \in 1..Len(sel) |-> record[k]]

\* sel.iter().map(|&i| &record[i])
project(sel, record) == [k \in 1..Len(sel) |-> record[sel[k] + 1]]

SelectData == DataRows(s_args, s_input)

\* cmd.run() returns `result`; `cause` is what made it fail.
Return(result, cause) ==
    /\ s_result' = result
    /\ s_cause' = cause
    /\ s_pc' = "returned"

\* main, line 211, and Command::run, lines 296-305 and 350.
MainDispatch ==
    /\ UNCHANGED notMain
    /\ s_pc = "main"
    /\ IF ~is_lowercase_command(s_args.command)
       THEN Return(From_string("lowercase"), "message")
       ELSE s_pc' = "select" /\ UNCHANGED <<s_result, s_cause>>
    /\ UNCHANGED <<s_args, s_input, s_sel, s_read, s_out, s_exit>>

\* select::run, lines 67-82: arguments, reader and writer, headers, the
\* selection and the header record.
SelectSetup ==
    /\ UNCHANGED notMain
    /\ s_pc = "select"
    /\ \E fault \in {"none", "usage", "deserialize", "open_io", "headers_csv",
                     "headers_io", "write_bp", "write_io"} :
        LET headers == byte_headers(s_input)
            sel     == selection(s_args.no_headers, s_args.arg_selection, headers)
        IN  /\ fault \in {"write_bp", "write_io"} => (sel.ok /\ ~s_args.no_headers)
            /\ CASE fault = "usage" ->
                      Return(From_docopt("WithProgramUsage"), "usage") /\ UNCHANGED <<s_sel, s_out>>
                 [] fault = "deserialize" ->
                      Return(From_docopt("Deserialize"), "flag") /\ UNCHANGED <<s_sel, s_out>>
                 [] fault = "open_io" ->
                      Return(From_io("NotFound"), "io") /\ UNCHANGED <<s_sel, s_out>>
                 [] fault = "headers_csv" ->
                      Return(From_csv(CsvStructural), "csv") /\ UNCHANGED <<s_sel, s_out>>
                 [] fault = "headers_io" ->
                      Return(From_csv(CsvIo("Other")), "io") /\ UNCHANGED <<s_sel, s_out>>
                 [] fault = "write_bp" ->
                      Return(From_csv(CsvIo("BrokenPipe")), "broken_pipe") /\ UNCHANGED <<s_sel, s_out>>
                 [] fault = "write_io" ->
                      Return(From_csv(CsvIo("Other")), "io") /\ UNCHANGED <<s_sel, s_out>>
                 [] fault = "none" ->
                      IF ~sel.ok
                      THEN Return(From_string("selection"), "message") /\ UNCHANGED <<s_sel, s_out>>
                      ELSE /\ s_sel' = sel.indices
                           /\ s_out' = IF ~s_args.no_headers
                                       THEN <<project(sel.indices, headers)>> ELSE <<>>
                           /\ s_pc' = "rows"
                           /\ UNCHANGED <<s_result, s_cause>>
    /\ UNCHANGED <<s_args, s_input, s_read, s_exit>>

\* select::run, lines 84-86: one turn of the loop.
SelectRow ==
    /\ UNCHANGED notMain
    /\ s_pc = "rows"
    /\ s_read < Len(SelectData)
    /\ \E fault \in {"none", "read_csv", "read_io", "write_bp", "write_io"} :
        CASE fault = "read_csv" ->
                Return(From_csv(CsvStructural), "csv") /\ UNCHANGED <<s_read, s_out>>
          [] fault = "read_io" ->
                Return(From_csv(CsvIo("Other")), "io") /\ UNCHANGED <<s_read, s_out>>
          [] fault = "write_bp" ->
                /\ Return(From_csv(CsvIo("BrokenPipe")), "broken_pipe")
                /\ s_read' = s_read + 1
                /\ UNCHANGED s_out
          [] fault = "write_io" ->
                /\ Return(From_csv(CsvIo("Other")), "io")
                /\ s_read' = s_read + 1
                /\ UNCHANGED s_out
          [] fault = "none" ->
                /\ s_out' = Append(s_out, project(s_sel, SelectData[s_read + 1]))
                /\ s_read' = s_read + 1
                /\ UNCHANGED <<s_pc, s_result, s_cause>>
    /\ UNCHANGED <<s_args, s_input, s_sel, s_exit>>

\* select::run, lines 84 and 87-88: the input is exhausted, flush.
SelectFlush ==
    /\ UNCHANGED notMain
    /\ s_pc = "rows"
    /\ s_read = Len(SelectData)
    /\ \E fault \in {"none", "read_io", "write_bp", "write_io"} :
        CASE fault = "read_io" -> Return(From_csv(CsvIo("Other")), "io")
          [] fault = "write_bp" -> Return(From_io("BrokenPipe"), "broken_pipe")
          [] fault = "write_io" -> Return(From_io("Other"), "io")
          [] fault = "none" -> Return(CliOk, "none")
    /\ UNCHANGED <<s_args, s_input, s_sel, s_read, s_out, s_exit>>

\* main, lines 211-229: the process exits.
MainExit ==
    /\ UNCHANGED notMain
    /\ s_pc = "returned"
    /\ s_exit' = main_exit(s_result)
    /\ s_pc' = "exited"
    /\ UNCHANGED <<s_args, s_input, s_sel, s_read, s_out, s_cause, s_result>>

MainNext ==
    \/ MainDispatch
    \/ SelectSetup
    \/ SelectRow
    \/ SelectFlush
    \/ MainExit

SpecMain == MainInit /\ [][MainNext]_vars

(***************************************************************************)
(* C9: the exit code.                                                      *)
(***************************************************************************)
\* C9: the process exits with code 0 exactly when the subcommand succeeded
\* or ended on a broken output pipe (met by the CSV writer or by the final
\* flush); after any other outcome (usage or flag error, structural CSV
\* error, other I/O error, message error) it exits with a nonzero code and
\* has printed a message to stderr.
C9_ExitCode ==
    s_pc = "exited" =>
        /\ (s_exit.code = 0) = (s_cause \in {"none", "broken_pipe"})
        /\ s_exit.code # 0 => s_exit.stderr

\* A run that met a broken pipe in the CSV writer after it had written the
\* header and a row, and exited with code 0.
C9_Witness ==
    /\ s_pc = "exited"
    /\ s_cause = "broken_pipe"
    /\ s_result = CliError("Io", "BrokenPipe")
    /\ s_read = 2
    /\ Len(s_out) = 2
    /\ s_exit.code = 0

(***************************************************************************)
(* C12: select projects the header and every row by one selection.         *)
(***************************************************************************)
\* The 0-based column a selector item stands for in the inputs explored
\* (header a,b): the column of the name, or the index itself.
SelectedColumn(item) ==
    IF item.by_name THEN (IF item.name = CellA THEN 0 ELSE 1) ELSE item.idx

\* The fields of a record at the selected columns, in selector order.
Projected(record) ==
    [k \in 1..Len(s_args.arg_selection) |->
        record[SelectedColumn(s_args.arg_selection[k]) + 1]]

\* What select has written once n data rows went through.
SelectExpected(n) ==
    (IF s_args.no_headers THEN <<>> ELSE <<Projected(byte_headers(s_input))>>)
        \o [k \in 1..n |-> Projected(SelectData[k])]

\* C12: while select runs its loop it has written the projected header
\* (iff headers are enabled) and then, for each data row read so far and in
\* input order, one row holding the fields of that row at the selected
\* columns in selector order; a run that succeeds has done so for every
\* data row, and a run that fails has written a prefix of that output.
C12_SelectProjectsEveryRow ==
    /\ s_pc = "rows" => s_out = SelectExpected(s_read)
    /\ (s_pc \in {"returned", "exited"} /\ s_result = CliOk)
          => s_out = SelectExpected(Len(SelectData))
    /\ (s_pc \in {"returned", "exited"} /\ s_out # <<>>)
          => \E n \in 0..Len(SelectData) : s_out = SelectExpected(n)

\* A successful run of `select b,a` over the header and two data rows: the
\* header and both rows were written with their two fields swapped.
C12_Witness ==
    /\ s_pc = "exited"
    /\ s_result = CliOk
    /\ ~s_args.no_headers
    /\ s_args.arg_selection = <<ByName(CellB), ByName(CellA)>>
    /\ s_input = <<InputHeaders, Row(CellX), Row(Empty)>>
    /\ s_out = <<<<CellB, CellA>>, <<CellK, CellX>>, <<CellK, Empty>>>>

(***************************************************************************)
(* The groupby command: rows [k1, k2, value] grouped by the first column   *)
(* or by the first two, with the aggregation sum(value).                   *)
(***************************************************************************)
GroupbyRows ==
    SeqsUpTo([k1 : {"x", "y"}, k2 : {"b", "o"}, value : {1, 2}], MaxGroupRows)

GroupbyArgs == [sorted : BOOLEAN, columns : {1, 2}]

\* The group-key tuple of a row under the selected group columns.
GroupKey(columns, row) == IF columns = 1 THEN <<row.k1>> ELSE <<row.k1, row.k2>>

GroupbyInit ==
    /\ gb \in [args : GroupbyArgs, input : GroupbyRows, pc : {"start"},
               read : {0}, groups : {<<>>}, current : {None}, out : {<<>>}]
    /\ MoonIdle
    /\ AggIdle
    /\ MainIdle
    /\ TopIdle
    /\ OthersIdle

\* The output row of a group: its key and its aggregate.
GroupRow(group) == [key |-> group.key, sum |-> group.sum]

\* Mutant of Accumulate: a key is only looked up in the most recent group.
AccumulateIntoLast(groups, key, value) ==
    IF groups # <<>> /\ groups[Len(groups)].key = key
    THEN [groups EXCEPT ![Len(groups)].sum = @ + value]
    ELSE Append(groups, [key |-> key, sum |-> value])

\* Buffered mode: the row goes to the accumulator of its key, created at the
\* end of the insertion-ordered table on first sight.
Accumulate(groups, key, value) ==
    IF \E i \in 1..Len(groups) : groups[i].key = key
    THEN [i \in 1..Len(groups) |->
            IF groups[i].key = key
            THEN [groups[i] EXCEPT !.sum = @ + value] ELSE groups[i]]
    ELSE Append(groups, [key |-> key, sum |-> value])

\* Mutant of KeyChanged: a key seen in an earlier run is taken as unchanged
\* only when it is one that was already emitted.
KeyChangedUnlessEmitted(current, key, out) ==
    /\ current # None
    /\ unwrap(current).key # key
    /\ ~\E i \in 1..Len(out) : out[i].kind = "group" /\ out[i].row.key = key

\* Sorted mode: the running accumulator is flushed when the key of the row
\* differs from the key of the previous row.
KeyChanged(current, key, out) == current # None /\ unwrap(current).key # key

GroupbyStart ==
    /\ UNCHANGED notGroupby
    /\ gb.pc = "start"
    /\ gb' = [gb EXCEPT !.pc = "rows", !.out = <<[kind |-> "header"]>>]

GroupbyRow ==
    /\ UNCHANGED notGroupby
    /\ gb.pc = "rows"
    /\ gb.read < Len(gb.input)
    /\ LET row == gb.input[gb.read + 1]
           key == GroupKey(gb.args.columns, row)
       IN  IF ~gb.args.sorted
           THEN gb' = [gb EXCEPT !.read = @ + 1,
                                 !.groups = Accumulate(@, key, row.value)]
           ELSE IF KeyChanged(gb.current, key, gb.out)
           THEN gb' = [gb EXCEPT !.read = @ + 1,
                         !.out = Append(@, [kind |-> "group",
                                            row |-> GroupRow(unwrap(gb.current))]),
                         !.current = Some([key |-> key, sum |-> row.value])]
           ELSE gb' = [gb EXCEPT !.read = @ + 1,
                         !.current = IF gb.current = None
                                     THEN Some([key |-> key, sum |-> row.value])
                                     ELSE Some([key |-> key,
                                                sum |-> unwrap(gb.current).sum + row.value])]

GroupbyEnd ==
    /\ UNCHANGED notGroupby
    /\ gb.pc = "rows"
    /\ gb.read = Len(gb.input)
    /\ gb' = [gb EXCEPT
                !.pc = "done",
                !.out = IF ~gb.args.sorted
                        THEN @ \o [i \in 1..Len(gb.groups) |->
                                     [kind |-> "group", row |-> GroupRow(gb.groups[i])]]
                        ELSE IF gb.current = None THEN @
                        ELSE Append(@, [kind |-> "group",
                                        row |-> GroupRow(unwrap(gb.current))])]

GroupbyNext ==
    \/ GroupbyStart
    \/ GroupbyRow
    \/ GroupbyEnd

SpecGroupby == GroupbyInit /\ [][GroupbyNext]_vars

(***************************************************************************)
(* C2 and C3: what groupby has written when it is done.                    *)
(***************************************************************************)
GbKeyAt(i) == GroupKey(gb.args.columns, gb.input[i])

\* The group rows written after the header.
GbGroups == [i \in 1..(Len(gb.out) - 1) |-> gb.out[i + 1].row]

RECURSIVE SumOver(_, _)
\* The sum of the values of the rows at the positions in S.
SumOver(rows, S) ==
    IF S = {} THEN 0
    ELSE LET i == CHOOSE x \in S : TRUE
         IN  rows[i].value + SumOver(rows, S \ {i})

\* The position at which a key first appears in the input.
GbFirstIndex(key) ==
    CHOOSE i \in 1..Len(gb.input) :
        GbKeyAt(i) = key /\ \A j \in 1..(i - 1) : GbKeyAt(j) # key

\* C2: in the default (buffered) mode a finished groupby has written the
\* header and then exactly one row per distinct group-key tuple, in the
\* order in which the keys first appear in the input, each carrying the
\* aggregate over every input row with that key, contiguous or not.
C2_BufferedGroupsByFirstAppearance ==
    (gb.pc = "done" /\ ~gb.args.sorted) =>
        LET n == Len(gb.input)
            G == GbGroups
        IN  /\ gb.out[1].kind = "header"
            /\ Len(G) = Cardinality({GbKeyAt(i) : i \in 1..n})
            /\ \A a \in 1..Len(G) :
                  /\ \E i \in 1..n : GbKeyAt(i) = G[a].key
                  /\ G[a].sum = SumOver(gb.input, {i \in 1..n : GbKeyAt(i) = G[a].key})
            /\ \A a, b \in 1..Len(G) :
                  a < b => /\ G[a].key # G[b].key
                           /\ GbFirstIndex(G[a].key) < GbFirstIndex(G[b].key)

\* A finished buffered run over the keys k, l, k (the same key twice, not
\* contiguous): two group rows.
C2_Witness ==
    /\ gb.pc = "done"
    /\ ~gb.args.sorted
    /\ Len(gb.input) = 3
    /\ GbKeyAt(1) = GbKeyAt(3)
    /\ GbKeyAt(1) # GbKeyAt(2)
    /\ Len(GbGroups) = 2

\* The positions at which a run of equal keys starts.
GbRunStarts ==
    {i \in 1..Len(gb.input) : i = 1 \/ GbKeyAt(i) # GbKeyAt(i - 1)}

\* The last position of the run that starts at s.
GbRunEnd(s) ==
    CHOOSE e \in s..Len(gb.input) :
        /\ \A t \in (s + 1)..e : t \notin GbRunStarts
        /\ e = Len(gb.input) \/ (e + 1) \in GbRunStarts

\* C3: with --sorted a finished groupby has written the header and then
\* exactly one row per maximal run of contiguous equal keys, in input
\* order, each aggregating the rows of its run only (runs of a key that
\* reappears are never merged); an input without data rows gives the
\* header alone.
C3_SortedGroupsPerRun ==
    (gb.pc = "done" /\ gb.args.sorted) =>
        LET G == GbGroups
        IN  /\ gb.out[1].kind = "header"
            /\ Len(G) = Cardinality(GbRunStarts)
            /\ gb.input = <<>> => Len(gb.out) = 1
            /\ \A a \in 1..Len(G) :
                  LET s == CHOOSE x \in GbRunStarts :
                              Cardinality({t \in GbRunStarts : t < x}) = a - 1
                  IN  /\ G[a].key = GbKeyAt(s)
                      /\ G[a].sum = SumOver(gb.input, s..GbRunEnd(s))

\* A finished sorted run over the keys k, l, k: three group rows, the first
\* and the last for the same key.
C3_Witness ==
    /\ gb.pc = "done"
    /\ gb.args.sorted
    /\ Len(gb.input) = 3
    /\ GbKeyAt(1) = GbKeyAt(3)
    /\ GbKeyAt(1) # GbKeyAt(2)
    /\ Len(GbGroups) = 3
    /\ GbGroups[1].key = GbGroups[3].key

(***************************************************************************)
(* top: keep the rows with the greatest (with -R: the smallest) value of   *)
(* the chosen column, at most -l per group.                                *)
(***************************************************************************)
TopRows == SeqsUpTo([group : {"red", "yellow"}, value : {1, 2}], MaxTopRows)

TopArgs == [limit : {None, Some(1), Some(2)}, reverse : BOOLEAN, groupby : BOOLEAN]

TopInit ==
    /\ tp \in [args : TopArgs, input : TopRows, pc : {"start"},
               read : {0}, groups : {<<>>}, out : {<<>>}]
    /\ MoonIdle
    /\ AggIdle
    /\ MainIdle
    /\ GroupbyIdle
    /\ OthersIdle

\* The group of a row: the value of the -g column, one group without -g.
TopGroupOf(args, row) == IF args.groupby THEN row.group ELSE "all"

\* Whether value v comes strictly before value w in the output order.
Precedes(reverse, v, w) == IF reverse THEN v < w ELSE v > w

\* Mutant of InsertKept: the row goes in front of the kept rows of equal
\* value.
InsertKeptBeforeEqual(kept, item, reverse) ==
    LET k == Cardinality({i \in 1..Len(kept) :
                            Precedes(reverse, kept[i].row.value, item.row.value)})
    IN  SubSeq(kept, 1, k) \o <<item>> \o SubSeq(kept, k + 1, Len(kept))

\* The row goes behind every kept row that precedes it or has its value.
InsertKept(kept, item, reverse) ==
    LET k == Cardinality({i \in 1..Len(kept) :
                            ~Precedes(reverse, item.row.value, kept[i].row.value)})
    IN  SubSeq(kept, 1, k) \o <<item>> \o SubSeq(kept, k + 1, Len(kept))

\* The kept rows cut down to the limit, when there is one.
Truncate(kept, limit) ==
    IF limit # None /\ Len(kept) > unwrap(limit)
    THEN SubSeq(kept, 1, unwrap(limit)) ELSE kept

\* The groups after one more row: the row joins the kept rows of its group,
\* a group being created behind the others on first sight.
TopInsert(groups, args, item) ==
    LET g == TopGroupOf(args, item.row)
    IN  IF \E i \in 1..Len(groups) : groups[i].name = g
        THEN [i \in 1..Len(groups) |->
                IF groups[i].name = g
                THEN [groups[i] EXCEPT
                        !.kept = Truncate(InsertKept(@, item, args.reverse), args.limit)]
                ELSE groups[i]]
        ELSE Append(groups,
                    [name |-> g, kept |-> Truncate(<<item>>, args.limit)])

RECURSIVE Flatten(_)
\* The kept rows of all groups, group after group.
Flatten(groups) ==
    IF groups = <<>> THEN <<>> ELSE Head(groups).kept \o Flatten(Tail(groups))

TopStart ==
    /\ UNCHANGED notTop
    /\ tp.pc = "start"
    /\ tp' = [tp EXCEPT !.pc = "rows"]

TopRow ==
    /\ UNCHANGED notTop
    /\ tp.pc = "rows"
    /\ tp.read < Len(tp.input)
    /\ LET index == tp.read + 1
       IN  tp' = [tp EXCEPT
                    !.read = index,
                    !.groups = TopInsert(@, tp.args,
                                         [index |-> index, row |-> tp.input[index]])]

TopEnd ==
    /\ UNCHANGED notTop
    /\ tp.pc = "rows"
    /\ tp.read = Len(tp.input)
    /\ tp' = [tp EXCEPT !.pc = "done", !.out = Flatten(tp.groups)]

TopNext ==
    \/ TopStart
    \/ TopRow
    \/ TopEnd

SpecTop == TopInit /\ [][TopNext]_vars

\* Whether the input row at i comes before the one at j in the order of the
\* run: by value (descending, ascending with -R), then by input position.
TopBefore(i, j) ==
    \/ Precedes(tp.args.reverse, tp.input[i].value, tp.input[j].value)
    \/ tp.input[i].value = tp.input[j].value /\ i < j

\* The rows of the group of the row at i that come before it.
TopAhead(i) ==
    {j \in 1..Len(tp.input) :
        /\ TopGroupOf(tp.args, tp.input[j]) = TopGroupOf(tp.args, tp.input[i])
        /\ TopBefore(j, i)}

\* C4: a finished top has written, for each group (one group without -g,
\* one per value of the -g column with it), exactly the rows of the group
\* that have fewer than -l rows of the group before them in the order of the
\* run (greatest value first, smallest first with -R, equal values in input
\* order), every row when no limit is given; within a group they are
\* written in that order, and the rows of a group are contiguous.
C4_TopPerGroup ==
    tp.pc = "done" =>
        LET out == tp.out
            n == Len(tp.input)
        IN  /\ \A a \in 1..Len(out) :
                  out[a].index \in 1..n /\ out[a].row = tp.input[out[a].index]
            /\ \A a, b \in 1..Len(out) : a # b => out[a].index # out[b].index
            /\ \A i \in 1..n :
                  (\E a \in 1..Len(out) : out[a].index = i)
                     <=> (tp.args.limit = None
                            \/ Cardinality(TopAhead(i)) < unwrap(tp.args.limit))
            /\ \A a, b \in 1..Len(out) :
                  (a < b /\ TopGroupOf(tp.args, out[a].row) = TopGroupOf(tp.args, out[b].row))
                     => TopBefore(out[a].index, out[b].index)
            /\ \A a, b, c \in 1..Len(out) :
                  (a < b /\ b < c
                     /\ TopGroupOf(tp.args, out[a].row) = TopGroupOf(tp.args, out[c].row))
                     => TopGroupOf(tp.args, out[b].row) = TopGroupOf(tp.args, out[a].row)

\* A finished grouped run with a limit of two over three rows of one group,
\* two of them with the same value, the third with a value that precedes
\* theirs: the third row and the first of the two equal rows are written.
C4_Witness ==
    /\ tp.pc = "done"
    /\ tp.args.groupby
    /\ tp.args.limit = Some(2)
    /\ Len(tp.input) = 3
    /\ tp.input[1].group = tp.input[2].group
    /\ tp.input[2].group = tp.input[3].group
    /\ tp.input[1].value = tp.input[2].value
    /\ Precedes(tp.args.reverse, tp.input[3].value, tp.input[1].value)
    /\ Len(tp.out) = 2
    /\ tp.out[1].index = 3
    /\ tp.out[2].index = 1

(***************************************************************************)
(* The graph builder and exporter (src/src/graph.rs).  Any sequence of     *)
(* calls of the builder's operations, then build() and write_gexf().       *)
(***************************************************************************)
GraphKeys == {"a", "b", "c"}

\* The attributes a node is added with.
NodeAttrs == {1, 2}

\* The attributes an edge is added with.
EdgeAttrs == {1, 2}

GexfVersions == {"1.2", "1.3", "1.1"}

\* UnionFind: element i (0-based) of the sequence is the root of the set of
\* element i.  make_set adds an element that is its own root.
make_set(sets) == Append(sets, Len(sets))

find(sets, i) == sets[i + 1]

SetSize(sets, r) == Cardinality({k \in 1..Len(sets) : sets[k] = r})

\* A mutant of union: the sets are left apart.
union_leaving_apart(sets, a, b) == {sets}

\* union(a, b): the smaller set goes under the root of the larger; with
\* equal sizes either root may be kept.  The set of possible outcomes.
union(sets, a, b) ==
    LET ra == find(sets, a)
        rb == find(sets, b)
        winners == IF SetSize(sets, ra) > SetSize(sets, rb) THEN {ra}
                   ELSE IF SetSize(sets, ra) < SetSize(sets, rb) THEN {rb}
                   ELSE {ra, rb}
    IN  IF ra = rb THEN {sets}
        ELSE {[k \in 1..Len(sets) |-> IF sets[k] \in {ra, rb} THEN w ELSE sets[k]] :
                w \in winners}

\* largest(): a root owning the most elements (any of them when several
\* do), none when the structure is empty.
largest(sets) ==
    {r \in {sets[k] : k \in 1..Len(sets)} :
        \A k \in 1..Len(sets) : SetSize(sets, sets[k]) <= SetSize(sets, r)}

\* The last call: the arguments of add_edge, or the arguments of add_node
\* and the id it returned.
NoEdgeCall ==
    [op |-> "other", source |-> 0, target |-> 0, attributes |-> 1,
     undirected |-> FALSE, key |-> "", id |-> 0]

\* GraphBuilder::default()
GraphInit ==
    /\ gr = [pc |-> "building", calls |-> 0, undirected |-> FALSE,
             allow_self_loops |-> FALSE, multi |-> FALSE,
             disjoint_sets |-> None, nodes |-> <<>>, edges |-> {},
             graph |-> None, version |-> "", out |-> <<>>, result |-> "none",
             last |-> NoEdgeCall]
    /\ MoonIdle
    /\ AggIdle
    /\ MainIdle
    /\ GroupbyIdle
    /\ TopIdle
    /\ CallIdle
    /\ TokenizeIdle
    /\ ParseIdle

\* A call of an operation of the builder.
BuilderCall ==
    /\ UNCHANGED notGraph
    /\ gr.pc = "building"
    /\ gr.calls < MaxGraphCalls

mark_as_undirected ==
    /\ BuilderCall
    /\ gr' = [gr EXCEPT !.calls = @ + 1, !.undirected = TRUE, !.last = NoEdgeCall]

keep_largest_component ==
    /\ BuilderCall
    /\ gr' = [gr EXCEPT !.calls = @ + 1, !.disjoint_sets = Some(<<>>),
                          !.last = NoEdgeCall]

\* The call add_node(key, attributes) that returned id.
NodeCall(key, attributes, id) ==
    [op |-> "add_node", source |-> 0, target |-> 0, attributes |-> attributes,
     undirected |-> FALSE, key |-> key, id |-> id]

\* A mutant of NodeId: every key is taken for a new one.
NodeIdAlwaysNew(nodes, key) == Len(nodes)

\* The id add_node returns for a key: its index in the node table, or the
\* length of the table for a new key.
NodeId(nodes, key) ==
    IF \E k \in 1..Len(nodes) : nodes[k].key = key
    THEN (CHOOSE k \in 1..Len(nodes) : nodes[k].key = key) - 1
    ELSE Len(nodes)

add_node ==
    /\ BuilderCall
    /\ \E key \in GraphKeys, attributes \in NodeAttrs :
        IF NodeId(gr.nodes, key) < Len(gr.nodes)
        THEN gr' = [gr EXCEPT !.calls = @ + 1,
                              !.last = NodeCall(key, attributes, NodeId(gr.nodes, key))]
        ELSE gr' = [gr EXCEPT
                      !.calls = @ + 1,
                      !.last = NodeCall(key, attributes, Len(gr.nodes)),
                      !.nodes = Append(@, [key |-> key, attributes |-> attributes]),
                      !.disjoint_sets = IF @ = None THEN None
                                        ELSE Some(make_set(unwrap(@)))]

\* Mutant of canonical: the pair is looked up as given.
canonical_as_given(source, target, undirected) == <<source, target>>

\* add_edge, lines 196-203: the pair under which the edge is stored.
canonical(source, target, undirected) ==
    IF source = target THEN <<source, target>>
    ELSE IF undirected /\ source > target THEN <<target, source>>
    ELSE <<source, target>>

\* HashMap::insert, line 213: the edge is stored under the pair, in place
\* of the one stored there before if any.
insert(edges, id, edge) ==
    [edges    |-> {e \in edges : e.id # id} \cup {[id |-> id, edge |-> edge]},
     replaced |-> \E e \in edges : e.id = id]

add_edge ==
    /\ BuilderCall
    /\ \E source, target \in 0..(Len(gr.nodes) - 1),
          attributes \in EdgeAttrs, undirected \in BOOLEAN :
        LET id   == canonical(source, target, undirected)
            edge == [source |-> gr.nodes[id[1] + 1].key,
                     target |-> gr.nodes[id[2] + 1].key,
                     undirected |-> undirected, attributes |-> attributes]
            ins  == insert(gr.edges, id, edge)
            next == [gr EXCEPT
                       !.calls = @ + 1,
                       !.last = [op |-> "add_edge", source |-> source,
                                 target |-> target, attributes |-> attributes,
                                 undirected |-> undirected, key |-> "", id |-> 0],
                       !.allow_self_loops = @ \/ source = target,
                       !.edges = ins.edges,
                       !.multi = @ \/ ins.replaced]
        IN  IF gr.disjoint_sets = None THEN gr' = next
            ELSE LET sets == unwrap(gr.disjoint_sets)
                 IN  IF id[1] >= Len(sets) \/ id[2] >= Len(sets)
                     THEN gr' = [next EXCEPT !.pc = "panicked"]
                     ELSE \E merged \in union(sets, id[1], id[2]) :
                            gr' = [next EXCEPT !.disjoint_sets = Some(merged)]

\* The state once build(self) has consumed the builder and returned the
\* Graph of these nodes and edges.
Built(nodes, edges) ==
    [pc |-> "built", calls |-> 0, undirected |-> FALSE,
     allow_self_loops |-> FALSE, multi |-> FALSE,
     disjoint_sets |-> None, nodes |-> <<>>, edges |-> {},
     graph |-> Some([undirected |-> gr.undirected,
                     allow_self_loops |-> gr.allow_self_loops,
                     multi |-> gr.multi, nodes |-> nodes, edges |-> edges]),
     version |-> "", out |-> <<>>, result |-> "none", last |-> NoEdgeCall]

\* The nodes whose union-find root is c, in order.
FilterNodes(nodes, sets, c) ==
    LET indexed == [k \in 1..Len(nodes) |-> [i |-> k - 1, node |-> nodes[k]]]
        Kept(x) == find(sets, x.i) = c
        kept    == SelectSeq(indexed, Kept)
    IN  [k \in 1..Len(kept) |-> kept[k].node]

build ==
    /\ UNCHANGED notGraph
    /\ gr.pc = "building"
    /\ IF gr.disjoint_sets = None
       THEN gr' = Built(gr.nodes, {e.edge : e \in gr.edges})
       ELSE LET sets == unwrap(gr.disjoint_sets)
            IN  IF largest(sets) = None
                THEN gr' = Built(gr.nodes, {e.edge : e \in gr.edges})
                ELSE IF Len(gr.nodes) > Len(sets)
                THEN gr' = [gr EXCEPT !.pc = "panicked"]
                ELSE \E c \in largest(sets) :
                       LET InLargest(i) == find(sets, i) = c
                       IN  gr' = Built(FilterNodes(gr.nodes, sets, c),
                                       {e.edge : e \in {x \in gr.edges :
                                                          InLargest(x.id[1])}})

\* The state once write_gexf has returned or panicked: what the writer
\* received and the result.
Written(pc, version, out, result) ==
    [gr EXCEPT !.pc = pc, !.graph = None, !.version = version,
               !.out = out, !.result = result]

\* write_gexf, lines 276-285: the declaration is written, then the version
\* is matched.  The writer may fail on any write.
write_gexf ==
    /\ UNCHANGED notGraph
    /\ gr.pc = "built"
    /\ \E version \in GexfVersions, fault \in {"none", "declaration", "body"} :
        IF fault = "declaration"
        THEN gr' = Written("written", version, <<>>, "Io")
        ELSE IF version \notin {"1.3", "1.2"}
        THEN gr' = Written("panicked", version, <<"declaration">>, "panic")
        ELSE IF fault = "body"
        THEN gr' = Written("written", version, <<"declaration">>, "Io")
        ELSE gr' = Written("written", version,
                           <<"declaration", version, "meta", "graph">>, "Ok")

GraphNext ==
    \/ mark_as_undirected
    \/ keep_largest_component
    \/ add_node
    \/ add_edge
    \/ build
    \/ write_gexf

SpecGraph == GraphInit /\ [][GraphNext]_vars

(***************************************************************************)
(* C13, C14, C15, C18: properties of the graph builder and exporter.       *)
(***************************************************************************)
\* The stored edges between the nodes i and j, in either direction.
EdgesBetween(edges, i, j) ==
    {e \in edges : {e.id[1], e.id[2]} = {i, j}}

\* A step that is a call add_edge(source, target, attributes, undirected),
\* whose arguments are then in gr'.last.
AddEdgeStep ==
    /\ gr.pc = "building"
    /\ gr'.calls = gr.calls + 1
    /\ gr'.last.op = "add_edge"

\* C13: an undirected edge is stored under the pair (min, max) of its node
\* ids, so a call add_edge(s, t, .., true) leaves exactly one undirected
\* edge between s and t, stored under that pair, and when an undirected
\* edge between s and t (added as (s, t) or as (t, s)) was stored before,
\* the call addresses that edge: the number of stored edges is unchanged.
C13_UndirectedReciprocalIsOneEdge ==
    [][(AddEdgeStep /\ gr'.last.undirected)
        => LET s    == gr'.last.source
               t    == gr'.last.target
               lo   == IF s < t THEN s ELSE t
               hi   == IF s < t THEN t ELSE s
               und  == {e \in EdgesBetween(gr'.edges, s, t) : e.edge.undirected}
               was  == {e \in EdgesBetween(gr.edges, s, t) : e.edge.undirected}
           IN  /\ Cardinality(und) = 1
               /\ \A e \in und : e.id = <<lo, hi>>
               /\ was # {} => Cardinality(gr'.edges) = Cardinality(gr.edges)]_vars

\* The undirected edge (a, b) was stored and the last call added the
\* undirected edge (b, a): one edge is stored, and the multigraph flag is
\* set.
C13_Witness ==
    /\ gr.pc = "building"
    /\ gr.last.op = "add_edge"
    /\ gr.last.undirected
    /\ gr.last.source = 1
    /\ gr.last.target = 0
    /\ gr.multi
    /\ Cardinality(gr.edges) = 1
    /\ \A e \in gr.edges : e.id = <<0, 1>> /\ e.edge.undirected

\* C14 as claimed: a call of add_edge over a pair that is already stored
\* returns normally, sets the multigraph flag, leaves the number of stored
\* edges unchanged and leaves under the pair an edge with the attributes of
\* the call; and the multigraph flag, once set, stays set until and through
\* build().
C14_ReinsertSetsMultiLastWins ==
    [][/\ AddEdgeStep
          => LET s  == gr'.last.source
                 t  == gr'.last.target
                 id == IF gr'.last.undirected /\ s > t THEN <<t, s>> ELSE <<s, t>>
             IN  (\E e \in gr.edges : e.id = id)
                    => /\ gr'.pc = "building"
                       /\ gr'.multi
                       /\ Cardinality(gr'.edges) = Cardinality(gr.edges)
                       /\ \A e \in gr'.edges :
                            e.id = id => /\ e.edge.attributes = gr'.last.attributes
                                         /\ e.edge.undirected = gr'.last.undirected
       /\ (gr.pc = "building" /\ gr.multi /\ gr'.pc = "building") => gr'.multi
       /\ (gr.pc = "building" /\ gr.multi /\ gr'.pc = "built")
             => unwrap(gr'.graph).multi]_vars

\* What holds of the code: the same, except that the call need not return
\* normally (with component tracking enabled the union that follows the
\* insertion may address an element the union-find does not hold).
C14_ReinsertSetsMultiLastWinsIfReturns ==
    [][/\ AddEdgeStep
          => LET s  == gr'.last.source
                 t  == gr'.last.target
                 id == IF gr'.last.undirected /\ s > t THEN <<t, s>> ELSE <<s, t>>
             IN  (\E e \in gr.edges : e.id = id)
                    => /\ gr'.multi
                       /\ Cardinality(gr'.edges) = Cardinality(gr.edges)
                       /\ \A e \in gr'.edges :
                            e.id = id => /\ e.edge.attributes = gr'.last.attributes
                                         /\ e.edge.undirected = gr'.last.undirected
       /\ (gr.pc = "building" /\ gr.multi /\ gr'.pc = "building") => gr'.multi
       /\ (gr.pc = "building" /\ gr.multi /\ gr'.pc = "built")
             => unwrap(gr'.graph).multi]_vars

\* A step that is a call of build(): it returns the Graph, or panics.
BuildStep ==
    /\ gr.pc = "building"
    /\ gr'.pc \in {"built", "panicked"}
    /\ ~AddEdgeStep

\* The root of node i (0-based) in the union-find, when it holds one.
RootOf(i) ==
    IF gr.disjoint_sets # None /\ i < Len(unwrap(gr.disjoint_sets))
    THEN Some(unwrap(gr.disjoint_sets)[i + 1]) ELSE None

\* The roots that own the most nodes.
LargestRoots ==
    LET owned(r) == Cardinality({i \in 0..(Len(gr.nodes) - 1) : RootOf(i) = Some(r)})
    IN  {r \in 0..(Len(gr.nodes) - 1) :
            /\ owned(r) > 0
            /\ \A q \in 0..(Len(gr.nodes) - 1) : owned(q) <= owned(r)}

\* The subsequence of the nodes at the positions in S.
NodesAt(S) ==
    LET F[k \in 0..Len(gr.nodes)] ==
            IF k = 0 THEN <<>>
            ELSE IF (k - 1) \in S THEN Append(F[k - 1], gr.nodes[k]) ELSE F[k - 1]
    IN  F[Len(gr.nodes)]

\* C15 as claimed: build() returns a graph; with component tracking
\* enabled its nodes are exactly the nodes whose root is a root owning the
\* most nodes, in insertion order, and its edges exactly the stored edges
\* whose source node has that root; without tracking it holds every node
\* and every edge.
C15_BuildKeepsLargestComponent ==
    [][BuildStep
        => /\ gr'.pc = "built"
           /\ LET graph == unwrap(gr'.graph)
              IN  IF gr.disjoint_sets = None
                  THEN /\ graph.nodes = gr.nodes
                       /\ graph.edges = {e.edge : e \in gr.edges}
                  ELSE \/ gr.nodes = <<>> /\ graph.nodes = <<>> /\ graph.edges = {}
                       \/ \E c \in LargestRoots :
                            /\ graph.nodes =
                                 NodesAt({i \in 0..(Len(gr.nodes) - 1) : RootOf(i) = Some(c)})
                            /\ graph.edges =
                                 {e.edge : e \in {x \in gr.edges :
                                                    RootOf(x.id[1]) = Some(c)}}]_vars

\* What holds of the code: the same, for a builder whose union-find holds
\* one element per node.
C15_BuildKeepsLargestComponentWhenTracked ==
    [][(/\ BuildStep
        /\ gr.disjoint_sets # None => Len(unwrap(gr.disjoint_sets)) = Len(gr.nodes))
        => /\ gr'.pc = "built"
           /\ LET graph == unwrap(gr'.graph)
              IN  IF gr.disjoint_sets = None
                  THEN /\ graph.nodes = gr.nodes
                       /\ graph.edges = {e.edge : e \in gr.edges}
                  ELSE \/ gr.nodes = <<>> /\ graph.nodes = <<>> /\ graph.edges = {}
                       \/ \E c \in LargestRoots :
                            /\ graph.nodes =
                                 NodesAt({i \in 0..(Len(gr.nodes) - 1) : RootOf(i) = Some(c)})
                            /\ graph.edges =
                                 {e.edge : e \in {x \in gr.edges :
                                                    RootOf(x.id[1]) = Some(c)}}]_vars

\* C18 as claimed: write_gexf given a version other than "1.2" and "1.3"
\* fails with an error and has written nothing.
C18_UnsupportedVersionWritesNothing ==
    (gr.pc \in {"written", "panicked"} /\ gr.version \notin {"", "1.2", "1.3"})
        => gr.result = "Other" /\ gr.out = <<>>

(***************************************************************************)
(* The scalar functions get and slice (src/src/xan/functions.rs).  A       *)
(* string is the sequence of its characters; "E" stands for a character    *)
(* of two bytes in UTF-8 (such as e-acute), the others take one byte.  A   *)
(* list is the sequence of its elements, each a one-character string.      *)
(***************************************************************************)
Chars == {"a", "b", "E"}

Utf8Width(ch) == IF ch = "E" THEN 2 ELSE 1

RECURSIVE ByteLen(_)
\* str::len(): the length of a string in bytes.
ByteLen(chars) ==
    IF chars = <<>> THEN 0 ELSE Utf8Width(Head(chars)) + ByteLen(Tail(chars))

\* The indices explored: from below minus the greatest length to above it.
Indices == (0 - MaxSeqLen - 2)..(MaxSeqLen + 2)

\* The targets explored: strings and lists up to the greatest length.
Targets ==
    [list : BOOLEAN, items : SeqsUpTo(Chars, MaxSeqLen)]

\* The modulus of `as usize`.  The values of this model stay far below
\* 2^31, so 2^30 stands for 2^64: like it, it exceeds every length explored.
UsizeModulus == 1073741824

\* n as usize, for an i64 n.
as_usize(n) == IF n < 0 THEN n + UsizeModulus ELSE n

max(a, b) == IF a > b THEN a ELSE b

NoneValue == [kind |-> "none", items |-> <<>>]

StringValue(chars) == [kind |-> "string", items |-> chars]

CallErrorValue == [kind |-> "error", items |-> <<>>]

\* Iterator::skip(n)
skip(seq, n) == IF n >= Len(seq) THEN <<>> ELSE SubSeq(seq, n + 1, Len(seq))

\* Iterator::take(n)
take(seq, n) == IF n >= Len(seq) THEN seq ELSE SubSeq(seq, 1, n)

\* get, lines 266-303.
get(target, index0) ==
    IF ~target.list
    THEN LET index == IF index0 < 0 THEN ByteLen(target.items) + index0 ELSE index0
         IN  IF index < 0 THEN NoneValue
             ELSE IF as_usize(index) < Len(target.items)
             THEN StringValue(<<target.items[as_usize(index) + 1]>>)
             ELSE NoneValue
    ELSE LET index == IF index0 < 0 THEN Len(target.items) + index0 ELSE index0
         IN  IF index < 0 THEN NoneValue
             ELSE IF as_usize(index) < Len(target.items)
             THEN StringValue(<<target.items[as_usize(index) + 1]>>)
             ELSE NoneValue

\* slice, lines 305-356.
slice(target, lo0, opt_hi) ==
    IF target.list THEN CallErrorValue
    ELSE LET chars == target.items
         IN  IF opt_hi = None
             THEN IF lo0 < 0
                  THEN LET l  == Len(chars)
                           lo == max(0, l + lo0)
                       IN  StringValue(skip(chars, as_usize(lo)))
                  ELSE StringValue(skip(chars, as_usize(lo0)))
             ELSE IF lo0 < 0 THEN StringValue(<<>>)
                  ELSE LET hi0 == unwrap(opt_hi)
                           hi  == IF hi0 < 0 THEN max(0, Len(chars) + hi0) ELSE hi0
                       IN  StringValue(take(skip(chars, as_usize(lo0)),
                                            as_usize(hi - lo0)))

CallInit ==
    /\ fx \in [pc : {"call"}, name : {"get", "slice"}, target : Targets,
               index : Indices, opt_hi : {None} \cup {Some(i) : i \in Indices},
               result : {NoneValue}]
    /\ fx.name = "get" => fx.opt_hi = None
    /\ MoonIdle
    /\ AggIdle
    /\ MainIdle
    /\ GroupbyIdle
    /\ TopIdle
    /\ GraphIdle
    /\ TokenizeIdle
    /\ ParseIdle

CallGet ==
    /\ UNCHANGED notCall
    /\ fx.pc = "call"
    /\ fx.name = "get"
    /\ fx' = [fx EXCEPT !.pc = "returned", !.result = get(fx.target, fx.index)]

CallSlice ==
    /\ UNCHANGED notCall
    /\ fx.pc = "call"
    /\ fx.name = "slice"
    /\ fx' = [fx EXCEPT !.pc = "returned",
                        !.result = slice(fx.target, fx.index, fx.opt_hi)]

CallNext ==
    \/ CallGet
    \/ CallSlice

SpecCall == CallInit /\ [][CallNext]_vars

\* An index counted from the end of a sequence of n elements when negative.
FromEnd(i, n) == IF i < 0 THEN n + i ELSE i

\* C16 as claimed: get(seq, i) on a list or a string returns the element
\* or character at position i, counted from the end in elements or
\* characters when i is negative, and absent, never an error, when that
\* position is still negative or past the end.
C16_GetCountsFromEnd ==
    (fx.pc = "returned" /\ fx.name = "get") =>
        LET n == Len(fx.target.items)
            j == FromEnd(fx.index, n)
        IN  fx.result = IF j < 0 \/ j >= n THEN NoneValue
                        ELSE StringValue(<<fx.target.items[j + 1]>>)

\* What holds of the code: the same for lists, for strings of one-byte
\* characters, and for indices that are not negative.
C16_GetCountsFromEndInBytes ==
    (/\ fx.pc = "returned" /\ fx.name = "get"
     /\ \/ fx.target.list
        \/ fx.index >= 0
        \/ ByteLen(fx.target.items) = Len(fx.target.items)) =>
        LET n == Len(fx.target.items)
            j == FromEnd(fx.index, n)
        IN  fx.result = IF j < 0 \/ j >= n THEN NoneValue
                        ELSE StringValue(<<fx.target.items[j + 1]>>)

\* C17 as claimed: slice(s, start, end?) on a string selects by character
\* position, a negative start or end counting from the end of the string;
\* a start still negative after that gives the empty string, with and
\* without an end; otherwise the result is the characters from start to
\* the end of the string, or up to end (stated here for an end that is not
\* before start).
C17_SliceCountsFromEnd ==
    (fx.pc = "returned" /\ fx.name = "slice" /\ ~fx.target.list) =>
        LET chars == fx.target.items
            n     == Len(chars)
            lo    == FromEnd(fx.index, n)
        IN  IF lo < 0 THEN fx.result = StringValue(<<>>)
            ELSE IF fx.opt_hi = None
            THEN fx.result = StringValue(skip(chars, lo))
            ELSE LET hi == FromEnd(unwrap(fx.opt_hi), n)
                 IN  hi >= lo =>
                        fx.result = StringValue(take(skip(chars, lo), hi - lo))

\* What holds of the code: the same for a start that is not negative, and,
\* without an end, for a negative start that is within the string.
C17_SliceCountsFromEndUnlessStartNegative ==
    (/\ fx.pc = "returned" /\ fx.name = "slice" /\ ~fx.target.list
     /\ \/ fx.index >= 0
        \/ fx.opt_hi = None /\ Len(fx.target.items) + fx.index >= 0) =>
        LET chars == fx.target.items
            n     == Len(chars)
            lo    == FromEnd(fx.index, n)
        IN  IF fx.opt_hi = None
            THEN fx.result = StringValue(skip(chars, lo))
            ELSE LET hi == FromEnd(unwrap(fx.opt_hi), n)
                 IN  hi >= lo =>
                        fx.result = StringValue(take(skip(chars, lo), hi - lo))

(***************************************************************************)
(* The tokenize command (src/src/cmd/tokenize.rs), sequential path.  A     *)
(* string is the sequence of its pieces, so that joined tokens can be      *)
(* told from single ones.  The input is valid CSV of two columns, id and   *)
(* text, the text column selected (col_index 1); the reader and the writer *)
(* do not fail.  The options explored are the sub-command, --token-type,   *)
(* --ngrams, --drop, --keep, --keep-text and --no-headers; the others are  *)
(* absent.  The tokenizer library splits three texts as tabulated.         *)
(***************************************************************************)
Str(piece) == <<piece>>

Texts == {"t0", "t1", "t2"}

\* The token kinds the runs meet, of those the tokenizer recognizes.
KindNames == {"word", "number", "punct"}

TokenizeHeaders == <<Str("id"), Str("text")>>

col_index == 1

split_paragraphs(string) ==
    CASE string = Str("t1") -> <<Str("p1")>>
      [] string = Str("t2") -> <<Str("p2"), Str("p3")>>
      [] OTHER -> <<>>

split_sentences(string) ==
    CASE string = Str("t1") -> <<Str("s1")>>
      [] string = Str("t2") -> <<Str("s2"), Str("s3"), Str("s4")>>
      [] OTHER -> <<>>

WordToken(text, kind) == [text |-> Str(text), kind |-> kind]

\* WordTokenizer::tokenize before any filter.
word_tokens(string) ==
    CASE string = Str("t1") -> <<WordToken("a", "word"), WordToken(".", "punct")>>
      [] string = Str("t2") -> <<WordToken("a", "word"), WordToken("1", "number"),
                                 WordToken(".", "punct"), WordToken("b", "word"),
                                 WordToken("c", "word")>>
      [] OTHER -> <<>>

\* The command lines explored.  A list of kinds is one name; the text of
\* --ngrams is given split at its commas.
TokenizeArgs ==
    [cmd : {"words", "sentences", "paragraphs"},
     flag_token_type : {None, Some("type")},
     flag_ngrams : {None, Some(<<"2">>), Some(<<"1", "2">>), Some(<<"x">>)},
     flag_drop : {None, Some("punct"), Some("bogus")},
     flag_keep : {None, Some("word"), Some("bogus")},
     flag_keep_text : BOOLEAN,
     flag_no_headers : BOOLEAN,
     flag_ngrams_sep : {"+"}]

TokenizeRecords == {<<Str("r"), Str(t)>> : t \in Texts}

\* Args::sep, line 194-196, --sep absent.
sep == " "

\* str::parse::<usize>
parse_usize(text) ==
    CASE text = "1" -> Some(1)
      [] text = "2" -> Some(2)
      [] OTHER -> None

\* parse_range, lines 25-41: None is the error.
parse_range(split) ==
    IF Len(split) = 1
    THEN IF parse_usize(split[1]) = None THEN None
         ELSE Some([s |-> unwrap(parse_usize(split[1])),
                    e |-> unwrap(parse_usize(split[1]))])
    ELSE IF Len(split) = 2
    THEN IF parse_usize(split[1]) = None \/ parse_usize(split[2]) = None THEN None
         ELSE Some([s |-> unwrap(parse_usize(split[1])),
                    e |-> unwrap(parse_usize(split[2]))])
    ELSE None

\* A mutant of validate: the checks of the sentences and paragraphs modes
\* are left out.
validate_words_only(args) ==
    IF args.flag_ngrams # None /\ args.flag_token_type # None
    THEN Some("--ngrams cannot be used with -T,--token-type!")
    ELSE None

\* Args::validate, lines 198-214: None is Ok(()), Some(message) the error.
validate(args) ==
    IF args.cmd \in {"sentences", "paragraphs"} /\ args.flag_ngrams # None
    THEN Some("--ngrams cannot work with paragraphs nor sentences!")
    ELSE IF args.cmd \in {"sentences", "paragraphs"} /\ args.flag_token_type # None
    THEN Some("-T,--token-type cannot work with paragraphs nor sentences!")
    ELSE IF args.flag_ngrams # None /\ args.flag_token_type # None
    THEN Some("--ngrams cannot be used with -T,--token-type!")
    ELSE None

\* kinds.split(',').map(|name| name.parse()).collect(): None is the error.
parse_kinds(kinds) == IF kinds \in KindNames THEN Some({kinds}) ELSE None

\* Lines 247-260, --column absent.
token_column_name(args) ==
    IF args.cmd = "words" /\ args.flag_token_type # None THEN "token"
    ELSE IF args.cmd = "paragraphs" THEN "paragraph"
    ELSE IF args.cmd = "sentences" THEN "sentence"
    ELSE "tokens"

\* ImmutableRecordHelpers::remove
remove(record, idx) ==
    SubSeq(record, 1, idx) \o SubSeq(record, idx + 2, Len(record))

\* Lines 262-274: the header record written.
tokenize_headers(args) ==
    LET kept  == IF args.flag_keep_text THEN TokenizeHeaders
                 ELSE remove(TokenizeHeaders, col_index)
        named == Append(kept, Str(token_column_name(args)))
    IN  IF args.flag_token_type = None THEN named
        ELSE Append(named, Str(unwrap(args.flag_token_type)))

\* WordTokenizerBuilder::new, line 282.
NewBuilder == [blacklist |-> None, whitelist |-> None]

\* The tokenizer's filter on kinds.
KindPasses(builder, kind) ==
    /\ builder.blacklist # None => kind \notin unwrap(builder.blacklist)
    /\ builder.whitelist # None => kind \in unwrap(builder.whitelist)

RECURSIVE JoinStr(_, _)
\* join: the strings with the separator between them.
JoinStr(strings, separator) ==
    IF strings = <<>> THEN <<>>
    ELSE IF Len(strings) = 1 THEN strings[1]
    ELSE strings[1] \o <<separator>> \o JoinStr(Tail(strings), separator)

\* The n-grams of the tokens, in order.
ngrams_of(texts, n) ==
    IF Len(texts) < n THEN <<>>
    ELSE [k \in 1..(Len(texts) - n + 1) |-> SubSeq(texts, k, k + n - 1)]

RECURSIVE ngrams_range(_, _, _)
\* NgramsIteratorExt::ngrams_range
ngrams_range(texts, s, e) ==
    IF s > e THEN <<>> ELSE ngrams_of(texts, s) \o ngrams_range(texts, s + 1, e)

\* The tokenize closure, lines 363-434.
tokenize(args, builder, ngrams, string) ==
    IF args.cmd = "paragraphs"
    THEN LET units == split_paragraphs(string)
         IN  [k \in 1..Len(units) |-> [text |-> units[k], kind |-> "word"]]
    ELSE IF args.cmd = "sentences"
    THEN LET units == split_sentences(string)
         IN  [k \in 1..Len(units) |-> [text |-> units[k], kind |-> "word"]]
    ELSE LET Passes(token) == KindPasses(builder, token.kind)
             tokens == SelectSeq(word_tokens(string), Passes)
         IN  IF ngrams = None THEN tokens
             ELSE LET texts == [k \in 1..Len(tokens) |-> tokens[k].text]
                      grams == ngrams_range(texts, unwrap(ngrams).s, unwrap(ngrams).e)
                  IN  [k \in 1..Len(grams) |->
                          [text |-> JoinStr(grams[k], args.flag_ngrams_sep),
                           kind |-> "word"]]

\* write_tokens!, lines 437-478: the records written for one input record.
write_tokens(args, record, tokens) ==
    LET record_to_write == IF args.flag_keep_text THEN record
                           ELSE remove(record, col_index)
    IN  IF args.cmd \in {"paragraphs", "sentences"}
        THEN [k \in 1..Len(tokens) |-> Append(record_to_write, tokens[k].text)]
        ELSE IF args.flag_token_type # None
        THEN [k \in 1..Len(tokens) |->
                record_to_write \o <<tokens[k].text, Str(tokens[k].kind)>>]
        ELSE <<Append(record_to_write,
                      JoinStr([k \in 1..Len(tokens) |-> tokens[k].text], sep))>>

\* The state when run returns.
TokenizeDone(out, result) ==
    [tk EXCEPT !.pc = "done", !.out = out, !.result = result]

TokenizeInit ==
    /\ tk \in [pc : {"start"}, args : TokenizeArgs,
               input : SeqsUpTo(TokenizeRecords, MaxTokenizeRows),
               read : {0}, builder : {NewBuilder}, ngrams : {None},
               out : {<<>>}, result : {"none"}]
    /\ MoonIdle
    /\ AggIdle
    /\ MainIdle
    /\ GroupbyIdle
    /\ TopIdle
    /\ GraphIdle
    /\ CallIdle
    /\ ParseIdle

\* run, lines 217-298: the arguments are validated, the header is
\* written, then the lists of kinds are parsed.
TokenizeStart ==
    /\ UNCHANGED notTokenize
    /\ tk.pc = "start"
    /\ LET args    == tk.args
           headers == IF args.flag_no_headers THEN <<>>
                      ELSE <<tokenize_headers(args)>>
       IN  IF validate(args) # None
           THEN tk' = TokenizeDone(<<>>, "Other")
           ELSE IF args.flag_ngrams # None /\ parse_range(unwrap(args.flag_ngrams)) = None
           THEN tk' = TokenizeDone(<<>>, "Other")
           ELSE LET ngrams == IF args.flag_ngrams = None THEN None
                              ELSE parse_range(unwrap(args.flag_ngrams))
                IN  IF args.flag_drop # None
                    THEN IF parse_kinds(unwrap(args.flag_drop)) = None
                         THEN tk' = TokenizeDone(headers, "Other")
                         ELSE tk' = [tk EXCEPT !.pc = "rows", !.out = headers,
                                               !.ngrams = ngrams,
                                               !.builder.blacklist =
                                                   parse_kinds(unwrap(args.flag_drop))]
                    ELSE IF args.flag_keep # None
                    THEN IF parse_kinds(unwrap(args.flag_keep)) = None
                         THEN tk' = TokenizeDone(headers, "Other")
                         ELSE tk' = [tk EXCEPT !.pc = "rows", !.out = headers,
                                               !.ngrams = ngrams,
                                               !.builder.whitelist =
                                                   parse_kinds(unwrap(args.flag_keep))]
                    ELSE tk' = [tk EXCEPT !.pc = "rows", !.out = headers,
                                          !.ngrams = ngrams]

\* run, lines 511-516: one record is read, tokenized and written.
TokenizeRow ==
    /\ UNCHANGED notTokenize
    /\ tk.pc = "rows"
    /\ tk.read < Len(tk.input)
    /\ LET record == tk.input[tk.read + 1]
           tokens == tokenize(tk.args, tk.builder, tk.ngrams, record[col_index + 1])
       IN  tk' = [tk EXCEPT !.read = tk.read + 1,
                            !.out = tk.out \o write_tokens(tk.args, record, tokens)]

\* run, lines 511 and 519: the input is exhausted and the writer flushed.
TokenizeEnd ==
    /\ UNCHANGED notTokenize
    /\ tk.pc = "rows"
    /\ tk.read = Len(tk.input)
    /\ tk' = TokenizeDone(tk.out, "Ok")

TokenizeNext ==
    \/ TokenizeStart
    \/ TokenizeRow
    \/ TokenizeEnd

SpecTokenize == TokenizeInit /\ [][TokenizeNext]_vars

\* A run of tokenize words given both --drop and --keep, past its start.
DropAndKeep ==
    /\ tk.pc \in {"rows", "done"}
    /\ tk.args.cmd = "words"
    /\ tk.args.flag_drop # None
    /\ tk.args.flag_keep # None

\* C19 as claimed: tokenize words given both --drop and --keep is rejected
\* as a configuration error before any input is read or output written.
C19_DropAndKeepRejected ==
    DropAndKeep =>
        /\ tk.pc = "done"
        /\ tk.result = "Other"
        /\ tk.read = 0
        /\ tk.out = <<>>

\* What holds of the code: --ngrams with --token-type is rejected before
\* anything is read or written; of --drop and --keep given together the
\* second is never looked at.
C19_NgramsWithTokenTypeRejected ==
    /\ (/\ tk.pc \in {"rows", "done"}
        /\ tk.args.flag_ngrams # None
        /\ tk.args.flag_token_type # None) =>
            /\ tk.pc = "done"
            /\ tk.result = "Other"
            /\ tk.read = 0
            /\ tk.out = <<>>
    /\ (DropAndKeep /\ tk.pc = "rows") =>
            /\ tk.builder.whitelist = None
            /\ tk.builder.blacklist = Some({unwrap(tk.args.flag_drop)})

\* The sentences or paragraphs of a text, as the mode asks.
UnitsOf(cmd, string) ==
    IF cmd = "paragraphs" THEN split_paragraphs(string) ELSE split_sentences(string)

RECURSIVE UnitRows(_, _, _)
\* One record per unit of each input record: the record, without its text
\* unless kept, and the unit.
UnitRows(cmd, keep_text, input) ==
    IF input = <<>> THEN <<>>
    ELSE LET record == Head(input)
             base   == IF keep_text THEN record ELSE <<record[1]>>
             units  == UnitsOf(cmd, record[2])
         IN  [k \in 1..Len(units) |-> Append(base, units[k])]
                 \o UnitRows(cmd, keep_text, Tail(input))

\* The output of tokenize sentences or paragraphs given no option of the
\* word mode.
UnitOutput(args, input) ==
    LET name   == IF args.cmd = "paragraphs" THEN "paragraph" ELSE "sentence"
        header == IF args.flag_keep_text THEN <<Str("id"), Str("text"), Str(name)>>
                  ELSE <<Str("id"), Str(name)>>
    IN  (IF args.flag_no_headers THEN <<>> ELSE <<header>>)
            \o UnitRows(args.cmd, args.flag_keep_text, input)

\* The list of kinds the run parses names an unrecognized kind.
UnrecognizedKind(args) ==
    IF args.flag_drop # None THEN unwrap(args.flag_drop) \notin KindNames
    ELSE args.flag_keep # None /\ unwrap(args.flag_keep) \notin KindNames

ParEntry(i) == [index |-> i, value |-> CellNumber(a_input[i + 1][1])]

\* The number of times the record enumerated as i is held on the parallel
\* path: in the hands of a worker or accumulated in a thread-local program.
RECURSIVE HeldBy(_, _)
HeldBy(i, ts) ==
    IF ts = {} THEN 0
    ELSE LET t == CHOOSE x \in ts : TRUE
         IN  (IF a_busy[t] # None /\ unwrap(a_busy[t]).index = i THEN 1 ELSE 0)
             + (IF a_local[t] # None /\ ~FailsOn(a_input[i + 1])
                THEN CopiesIn(ParEntry(i), unwrap(a_local[t])) ELSE 0)
             + HeldBy(i, ts \ {t})

\* The records read so far that evaluate, as the parallel path enumerates
\* them.
ParEvaluated(n) == {i \in 0..(n - 1) : ~FailsOn(a_input[i + 1])}

\* C21: on the parallel path of agg the rows are enumerated in reading
\* order; while the workers run, the original program is untouched, every
\* row read is held exactly once (by the worker that took it or, once
\* evaluated, in exactly one thread-local program; a row whose evaluation
\* failed is in none) and the thread-local programs hold nothing else; a
\* successful run ends with the original program holding every evaluated
\* row exactly once and the summary is finalize(true) of that program.
C21_ParallelRowsAccumulatedOnce ==
    (a_pc \in {"par", "done"} /\ a_args.flag_parallel /\ a_args.doc = "none"
        /\ a_out # <<>>) =>
        /\ a_pc = "par" \/ a_result # "Ok" =>
            /\ a_program = EmptyBag
            /\ Len(a_out) = 1
            /\ \A i \in 0..(a_read - 1) :
                  IF FailsOn(a_input[i + 1]) THEN HeldBy(i, Threads) <= 1
                  ELSE HeldBy(i, Threads) = 1
            /\ \A t \in Threads :
                  /\ a_busy[t] # None => unwrap(a_busy[t]).index < a_read
                  /\ a_local[t] # None =>
                        BagToSet(unwrap(a_local[t])) \subseteq
                            {ParEntry(i) : i \in ParEvaluated(a_read)}
        /\ a_pc = "done" /\ a_result = "Ok" =>
            /\ a_read = Len(a_input)
            /\ a_program = SetToBag({ParEntry(i) : i \in ParEvaluated(Len(a_input))})
            /\ a_out = <<AggHeaders, finalize(a_program, TRUE)>>

\* A successful parallel run of two rows that evaluate.
C21_Witness ==
    /\ a_pc = "done"
    /\ a_result = "Ok"
    /\ a_args.flag_parallel
    /\ Len(a_input) = 2
    /\ BagCardinality(a_program) = 2

\* The entries accumulated, in the original program and in the thread-local
\* ones.
AggEntries ==
    BagToSet(a_program) \cup
        UNION {BagToSet(unwrap(a_local[t])) : t \in {x \in Threads : a_local[x] # None}}

\* C22 as claimed: the index agg passes for a row is the same on both
\* paths.  The sequential path passes the 1-based position of the row
\* (C22_SequentialIndexIsPosition), so on either path every accumulated
\* entry and every reported row number carries the 1-based position of its
\* row.
C22_SameIndexOnBothPaths ==
    a_pc # "idle" =>
        /\ \A e \in AggEntries :
              /\ e.index \in 1..Len(a_input)
              /\ ~FailsOn(a_input[e.index])
              /\ e.value = CellNumber(a_input[e.index][1])
        /\ \A k \in 1..Len(a_diag) :
              /\ a_diag[k].row \in 1..Len(a_input)
              /\ FailsOn(a_input[a_diag[k].row])

\* What holds of the code: the sequential path passes the 1-based position
\* of the row, the parallel path the 0-based one.
C22_SequentialIndexIsPosition ==
    a_pc # "idle" =>
        LET base == IF a_args.flag_parallel THEN 0 ELSE 1
        IN  /\ \A e \in AggEntries :
                  /\ e.index + 1 - base \in 1..Len(a_input)
                  /\ e.value = CellNumber(a_input[e.index + 1 - base][1])
            /\ \A k \in 1..Len(a_diag) :
                  /\ a_diag[k].row + 1 - base \in 1..Len(a_input)
                  /\ FailsOn(a_input[a_diag[k].row + 1 - base])

(***************************************************************************)
(* C23, C24, C25: the header, the column to replace and the Report policy  *)
(* in run_moonblade_cmd.                                                   *)
(***************************************************************************)
\* C23 as claimed: once run_moonblade_cmd has written a header record,
\* every data row it emits has as many fields as that header, in every
\* mode, under every policy, whether the evaluation succeeds or fails and
\* whether or not the target-column and error-column names are supplied.
C23_RowsAsWideAsHeader ==
    (HeaderWritten /\ m_out # <<>>) =>
        \A k \in 2..Len(m_out) : Len(m_out[k]) = Len(m_out[1])

\* What holds of the code: the same when the names of the columns the mode
\* and the policy add are supplied, and Report is used with a mode that can
\* report.
C23_RowsAsWideAsHeaderWhenNamed ==
    (/\ HeaderWritten /\ m_out # <<>>
     /\ m_args.mode = "Map" => m_args.target_column # None
     /\ m_args.mode = "Flatmap" =>
            m_args.target_column # None \/ m_args.rename_column # None
     /\ will_report(m_args.error_policy) =>
            m_args.error_column_name # None /\ ~cannot_report(m_args.mode)) =>
        \A k \in 2..Len(m_out) : Len(m_out[k]) = Len(m_out[1])

\* C24 as claimed: in Transform mode no row is handled with an unresolved
\* column to replace, so handling a row never unwraps an absent index.
C24_TransformColumnResolved ==
    (m_pc # "idle" /\ m_args.mode = "Transform" /\ Handled > 0) =>
        /\ m_replace # None
        /\ m_result # "crash"

\* What holds of the code: the column is resolved when the input has a
\* header that is read as such and a target column is named.
C24_TransformColumnResolvedWithHeader ==
    (/\ m_pc # "idle" /\ m_args.mode = "Transform" /\ Handled > 0
     /\ ~m_args.no_headers
     /\ m_args.target_column # None) =>
        /\ m_replace # None
        /\ m_result # "crash"

\* A run under the Report policy in a mode that cannot report.
ReportCannotReport ==
    /\ m_pc # "idle"
    /\ will_report(m_args.error_policy)
    /\ cannot_report(m_args.mode)

\* C25 as claimed: a run under the Report policy in Filter, Flatmap or
\* Foreach mode handles no row as if the combination were valid and never
\* ends successfully.
C25_ReportCannotReportIsError ==
    ReportCannotReport =>
        /\ Len(DataOut) = 0
        /\ m_pc = "done" => m_result # "Ok"

\* What holds of the code: such a run ends in a panic at the first row
\* whose evaluation fails, and carries on until then.
C25_ReportCannotReportPanicsOnFailedRow ==
    (ReportCannotReport /\ Handled > 0) =>
        IF \E i \in 1..Handled : FailsOn(MoonData[i])
        THEN /\ m_pc = "done"
             /\ m_result = "crash"
             /\ \A i \in 1..(Handled - 1) : ~FailsOn(MoonData[i])
        ELSE m_result # "crash"

(***************************************************************************)
(* C26, C27, C28: the node table, the union-find and the edges of the      *)
(* graph builder.                                                          *)
(***************************************************************************)
\* A step that is a call add_node(key, attributes), whose arguments and
\* returned id are then in gr'.last.
AddNodeStep ==
    /\ gr.pc = "building"
    /\ gr'.calls = gr.calls + 1
    /\ gr'.last.op = "add_node"

\* C26: no call of the builder changes or moves a node already inserted,
\* so a node's id is its rank in first-insertion order; add_node on a new
\* key appends one node with the attributes given and returns the number of
\* nodes inserted before, add_node on a known key returns the id of that
\* key's node and leaves the table, the attributes of the first insertion
\* included, as it was; each key has one node.
C26_NodeIdsDenseFirstAttributesWin ==
    [][/\ (gr.pc = "building" /\ gr'.pc = "building") => IsPrefix(gr.nodes, gr'.nodes)
       /\ AddNodeStep =>
            LET key   == gr'.last.key
                known == {k \in 1..Len(gr.nodes) : gr.nodes[k].key = key}
            IN  /\ IF known # {}
                   THEN /\ gr'.nodes = gr.nodes
                        /\ gr'.last.id + 1 \in known
                   ELSE /\ gr'.last.id = Len(gr.nodes)
                        /\ gr'.nodes = Append(gr.nodes,
                               [key |-> key, attributes |-> gr'.last.attributes])
                /\ \A j, k \in 1..Len(gr'.nodes) :
                      gr'.nodes[j].key = gr'.nodes[k].key => j = k]_vars

\* The last call was add_node on the key of node 0 with other attributes
\* than those it was first added with; two nodes are stored.
C26_Witness ==
    /\ gr.pc = "building"
    /\ gr.last.op = "add_node"
    /\ gr.last.id = 0
    /\ Len(gr.nodes) = 2
    /\ gr.nodes[1].key = gr.last.key
    /\ gr.nodes[1].attributes = 1
    /\ gr.last.attributes = 2

\* C27 as claimed: while component tracking is enabled the union-find
\* holds one element per inserted node, whatever the order of the calls,
\* and neither add_edge nor build addresses a missing element (the only
\* panic is that of write_gexf on its version).
C27_UnionFindAlignedWithNodes ==
    /\ (gr.pc = "building" /\ gr.disjoint_sets # None) =>
            Len(unwrap(gr.disjoint_sets)) = Len(gr.nodes)
    /\ gr.pc = "panicked" => gr.version # ""

\* What holds of the code: add_node and add_edge keep an aligned union-find
\* aligned, and return.
C27_UnionFindStaysAligned ==
    [][(/\ gr.pc = "building"
        /\ gr.disjoint_sets # None
        /\ Len(unwrap(gr.disjoint_sets)) = Len(gr.nodes)
        /\ gr'.calls = gr.calls + 1
        /\ gr'.last.op \in {"add_node", "add_edge"})
        => /\ gr'.pc = "building"
           /\ gr'.disjoint_sets # None
           /\ Len(unwrap(gr'.disjoint_sets)) = Len(gr'.nodes)]_vars

\* The keys of the nodes of a graph.
NodeKeys(graph) == {graph.nodes[k].key : k \in 1..Len(graph.nodes)}

\* C28: in every Graph build() returns, the source key and the target key
\* of every edge are keys of nodes of the graph.
C28_NoDanglingEdge ==
    gr.pc = "built" =>
        \A e \in unwrap(gr.graph).edges :
            /\ e.source \in NodeKeys(unwrap(gr.graph))
            /\ e.target \in NodeKeys(unwrap(gr.graph))

\* A graph returned with one node dropped by the filter and an edge kept.
C28_Witness ==
    /\ gr.pc = "built"
    /\ Len(unwrap(gr.graph).nodes) = 2
    /\ Cardinality(unwrap(gr.graph).edges) = 1
    /\ \E e \in unwrap(gr.graph).edges : e.source = "c" /\ e.target = "a"

\* C29 as claimed: slice(s, start, end) on a string, with a start that is
\* not negative and an end that, counted from the end of the string when
\* negative, is not beyond start, is the empty string.
C29_SliceEndNotBeyondStartIsEmpty ==
    (/\ fx.pc = "returned" /\ fx.name = "slice" /\ ~fx.target.list
     /\ fx.index >= 0
     /\ fx.opt_hi # None
     /\ FromEnd(unwrap(fx.opt_hi), Len(fx.target.items)) <= fx.index) =>
        fx.result = StringValue(<<>>)

\* What holds of the code: with the end before the start the count wraps
\* and the result is the string from start on; with the end at the start it
\* is empty.
C29_SliceEndBeforeStartTakesTheRest ==
    (/\ fx.pc = "returned" /\ fx.name = "slice" /\ ~fx.target.list
     /\ fx.index >= 0
     /\ fx.opt_hi # None
     /\ FromEnd(unwrap(fx.opt_hi), Len(fx.target.items)) <= fx.index) =>
        LET hi == max(0, FromEnd(unwrap(fx.opt_hi), Len(fx.target.items)))
        IN  fx.result = IF hi = fx.index THEN StringValue(<<>>)
                        ELSE StringValue(skip(fx.target.items, fx.index))

(***************************************************************************)
(* The expression parser (src/src/xan/parser.rs).  The input is the        *)
(* sequence of its characters.  A parser returns an IResult: None on an    *)
(* error, Some([rest, value]) on success, with the input left and the      *)
(* value parsed.  The inputs explored hold letters, spaces, parentheses,   *)
(* commas, bars, underscores and digits; string literals, signs and        *)
(* exponents are not explored.                                             *)
(***************************************************************************)
Parsed(rest, value) == [rest |-> rest, value |-> value]

POk(rest, value) == Some(Parsed(rest, value))

PErr == None

Alpha == {"a", "c", "e", "f", "i", "l", "m", "n", "o", "r", "s", "t", "u"}

Digit == {"0", "1", "2", "3", "4", "5", "6", "7", "8", "9"}

Drop(input, n) == SubSeq(input, n + 1, Len(input))

RECURSIVE PrefixIn(_, _)
\* The length of the longest prefix of the input whose characters are in S.
PrefixIn(S, input) ==
    IF input # <<>> /\ Head(input) \in S THEN 1 + PrefixIn(S, Tail(input)) ELSE 0

\* tag(t) and char(c).
tag(t, input) ==
    IF Len(t) <= Len(input) /\ SubSeq(input, 1, Len(t)) = t
    THEN POk(Drop(input, Len(t)), t) ELSE PErr

\* space0 never fails: the input after its leading spaces and tabs.
space0(input) == Drop(input, PrefixIn({" ", "\t"}, input))

\* boolean_literal, lines 29-31.
boolean_literal(input) ==
    IF tag(<<"t", "r", "u", "e">>, input) # PErr
    THEN {Parsed(r.rest, TRUE) : r \in tag(<<"t", "r", "u", "e">>, input)}
    ELSE {Parsed(r.rest, FALSE) : r \in tag(<<"f", "a", "l", "s", "e">>, input)}

\* underscore, lines 37-39.
underscore(input) == tag(<<"_">>, input)

\* identifier, lines 41-46: letters, then letters, digits, "_" and "-".
identifier(input) ==
    IF PrefixIn(Alpha, input) = 0 THEN PErr
    ELSE {Parsed(Drop(input, n), SubSeq(input, 1, n)) :
             n \in {PrefixIn(Alpha \cup Digit \cup {"_", "-"}, input)}}

\* The text of an integer literal, line 50: digits, then digits and "_".
integer_text(input) ==
    IF PrefixIn(Digit, input) = 0 THEN PErr
    ELSE {Parsed(Drop(input, n), SubSeq(input, 1, n)) :
             n \in {PrefixIn(Digit \cup {"_"}, input)}}

DigitValue(ch) ==
    CASE ch = "0" -> 0 [] ch = "1" -> 1 [] ch = "2" -> 2 [] ch = "3" -> 3
      [] ch = "4" -> 4 [] ch = "5" -> 5 [] ch = "6" -> 6 [] ch = "7" -> 7
      [] ch = "8" -> 8 [] OTHER -> 9

RECURSIVE parse_i64(_, _)
\* string.replace("_", "").parse::<i64>()
parse_i64(text, acc) ==
    IF text = <<>> THEN acc
    ELSE IF Head(text) = "_" THEN parse_i64(Tail(text), acc)
    ELSE parse_i64(Tail(text), 10 * acc + DigitValue(Head(text)))

\* integer_literal, lines 48-53.
integer_literal(input) ==
    {Parsed(text.rest, parse_i64(text.value, 0)) : text \in integer_text(input)}

\* float_literal, lines 33-35: digits, then possibly a point and possibly
\* digits.  The value is kept as its whole part and the text of its
\* decimals.
float_literal(input) ==
    UNION {UNION {{Parsed(Drop(input, n + m),
                          [whole |-> parse_i64(SubSeq(input, 1, n), 0),
                           decimals |-> SubSeq(input, n + 2, n + m)])} :
                     m \in {IF Len(input) > n /\ input[n + 1] = "."
                            THEN 1 + PrefixIn(Digit, Drop(input, n + 1)) ELSE 0}} :
              n \in {PrefixIn(Digit, input)} \ {0}}

Argument(kind, value) == [kind |-> kind, value |-> value]

Underscore == Argument("Underscore", "_")

\* argument_separator, lines 91-93.
argument_separator(input) ==
    {Parsed(space0(comma.rest), ",") : comma \in tag(<<",">>, space0(input))}

\* argument, lines 95-114: the first alternative that matches.
argument(input) ==
    IF boolean_literal(input) # PErr
    THEN {Parsed(r.rest, Argument("BooleanLiteral", r.value)) : r \in boolean_literal(input)}
    ELSE IF identifier(input) # PErr
    THEN {Parsed(r.rest, Argument("Identifier", r.value)) : r \in identifier(input)}
    ELSE IF {i \in integer_literal(input) : tag(<<".">>, i.rest) = PErr} # PErr
    THEN {Parsed(r.rest, Argument("IntegerLiteral", r.value)) :
             r \in {i \in integer_literal(input) : tag(<<".">>, i.rest) = PErr}}
    ELSE IF float_literal(input) # PErr
    THEN {Parsed(r.rest, Argument("FloatLiteral", r.value)) : r \in float_literal(input)}
    ELSE {Parsed(r.rest, Underscore) : r \in underscore(input)}

RECURSIVE more_arguments(_, _)
\* separated_list0 after its first element: while a separator and an
\* element follow, the element is added.
more_arguments(input, acc) ==
    IF UNION {argument(s.rest) : s \in argument_separator(input)} = PErr
    THEN Parsed(input, acc)
    ELSE CHOOSE list \in {more_arguments(a.rest, Append(acc, a.value)) :
             a \in UNION {argument(s.rest) : s \in argument_separator(input)}} : TRUE

\* argument_list, lines 116-118: separated_list0 never fails.
argument_list(input) ==
    IF argument(input) = PErr THEN Parsed(input, <<>>)
    ELSE CHOOSE list \in {more_arguments(a.rest, <<a.value>>) : a \in argument(input)} : TRUE

FunctionCall(name, args) == [name |-> name, args |-> args]

\* The parenthesized list of function_call, lines 124-128:
\* delimited(pair(space0, char('(')), argument_list, pair(char(')'), space0)).
parenthesized(input) ==
    UNION {UNION {{Parsed(space0(close.rest), list.value) :
                      close \in tag(<<")">>, list.rest)} :
                     list \in {argument_list(open.rest)}} :
              open \in tag(<<"(">>, space0(input))}

\* A mutant of function_call: a bare name is a call without arguments.
function_call_bare_is_empty(input) ==
    UNION {IF parenthesized(name.rest) # PErr
           THEN {Parsed(args.rest, FunctionCall(name.value, args.value)) :
                    args \in parenthesized(name.rest)}
           ELSE POk(name.rest, FunctionCall(name.value, <<>>)) :
              name \in identifier(input)}

\* function_call, lines 120-137.
function_call(input) ==
    UNION {IF parenthesized(name.rest) # PErr
           THEN {Parsed(args.rest, FunctionCall(name.value, args.value)) :
                    args \in parenthesized(name.rest)}
           ELSE POk(name.rest, FunctionCall(name.value, <<Underscore>>)) :
              name \in identifier(input)}

\* A mutant of pipe: no space is allowed around the bar.
pipe_without_space(input) == tag(<<"|">>, input)

\* pipe, lines 139-141.
pipe(input) ==
    {Parsed(space0(bar.rest), "|") : bar \in tag(<<"|">>, space0(input))}

RECURSIVE more_calls(_, _)
\* separated_list0 after its first element.
more_calls(input, acc) ==
    IF UNION {function_call(bar.rest) : bar \in pipe(input)} = PErr
    THEN Parsed(input, acc)
    ELSE CHOOSE list \in {more_calls(fc.rest, Append(acc, fc.value)) :
             fc \in UNION {function_call(bar.rest) : bar \in pipe(input)}} : TRUE

\* pipeline, lines 143-145: all_consuming(separated_list0(pipe, function_call)).
parse_pipeline(input) ==
    {list \in (IF function_call(input) = PErr THEN POk(input, <<>>)
               ELSE {more_calls(fc.rest, <<fc.value>>) : fc \in function_call(input)}) :
        list.rest = <<>>}
\* The result of a pipeline applied to a starting value: each call is
\* applied with the result of the calls before it in place of its
\* underscores.
Term(name, args) == [fn |-> name, over |-> args]

Substitute(args, current) ==
    [i \in 1..Len(args) |-> IF args[i] = Underscore THEN current ELSE args[i]]

RECURSIVE denote(_, _)
denote(calls, current) ==
    IF calls = <<>> THEN current
    ELSE denote(Tail(calls), Term(Head(calls).name, Substitute(Head(calls).args, current)))

\* The pipelines explored have at most MaxCalls calls.
MaxCalls == 2

Trim == <<"t", "r", "i", "m">>

LenName == <<"l", "e", "n">>

NameColumn == <<"n", "a", "m", "e">>

\* How a call is written: its name, what follows it ("bare": nothing,
\* "empty": (), "underscore": (_), "column": (name), "pair": (_ , 45)) and
\* the number of spaces between the name and the parenthesis, explored
\* for the form (_).
CallShapes ==
    {c \in [name : {Trim, LenName},
            form : {"bare", "empty", "underscore", "column", "pair"},
            gap : {0, 2}] :
        c.form # "underscore" => c.gap = 0}

\* The number of spaces before and after a bar.
PipeShapes == [before : {0, 1}, after : {0, 1}]

\* What is written after the last call.
Trailings == {<<>>, <<"|">>, <<" ", "|">>}

Shapes ==
    UNION {[calls : [1..n -> CallShapes], pipes : [1..(n - 1) -> PipeShapes],
            trailing : Trailings] : n \in 1..MaxCalls}

Spaces(n) == [i \in 1..n |-> " "]

WrittenCall(c) ==
    c.name \o Spaces(c.gap) \o
    (CASE c.form = "bare" -> <<>>
       [] c.form = "empty" -> <<"(", ")">>
       [] c.form = "underscore" -> <<"(", "_", ")">>
       [] c.form = "column" -> <<"(">> \o NameColumn \o <<")">>
       [] OTHER -> <<"(", "_", " ", ",", " ", "4", "5", ")">>)

RECURSIVE WrittenFrom(_, _)
\* The text of the calls from the i-th, each after its bar.
WrittenFrom(shape, i) ==
    IF i > Len(shape.calls) THEN shape.trailing
    ELSE Spaces(shape.pipes[i - 1].before) \o <<"|">> \o Spaces(shape.pipes[i - 1].after)
         \o WrittenCall(shape.calls[i]) \o WrittenFrom(shape, i + 1)

WrittenChain(shape) == WrittenCall(shape.calls[1]) \o WrittenFrom(shape, 2)

ParseInit ==
    /\ px \in {[pc |-> "parse", shape |-> s, input |-> WrittenChain(s), result |-> None] :
                  s \in Shapes}
    /\ MoonIdle
    /\ AggIdle
    /\ MainIdle
    /\ GroupbyIdle
    /\ TopIdle
    /\ GraphIdle
    /\ CallIdle
    /\ TokenizeIdle

\* pipeline(input), lines 143-145.
ParsePipeline ==
    /\ UNCHANGED notParse
    /\ px.pc = "parse"
    /\ px' = [px EXCEPT !.pc = "done", !.result = parse_pipeline(px.input)]

ParseNext ==
    \/ ParsePipeline

SpecParse == ParseInit /\ [][ParseNext]_vars

\* The call a written call stands for: a bare name has the single
\* underscore argument, f() has none.
CallOf(c) ==
    FunctionCall(c.name,
        CASE c.form = "bare" -> <<Underscore>>
          [] c.form = "empty" -> <<>>
          [] c.form = "underscore" -> <<Underscore>>
          [] c.form = "column" -> <<Argument("Identifier", NameColumn)>>
          [] OTHER -> <<Underscore, Argument("IntegerLiteral", 45)>>)

\* A chain written as trim or trim(_) or trim(name), then len or len(_).
TrimThenLen(shape) ==
    /\ Len(shape.calls) = 2
    /\ shape.calls[1].name = Trim
    /\ shape.calls[1].form \in {"bare", "underscore", "column"}
    /\ shape.calls[2].name = LenName
    /\ shape.calls[2].form \in {"bare", "underscore"}

\* C30: pipeline() parses a chain of calls separated by bars whatever the
\* spaces around a bar and between a name and its parenthesis: a bare name
\* is the call with the single underscore argument and f() the call
\* without arguments; trim(name) | len(_), trim(name)|len  (_) and
\* trim | len applied to the column name all denote len(trim(name)); an
\* input with text left after the last call, such as a trailing bar, is
\* a syntax error.
C30_PipelineParsesChain ==
    px.pc = "done" =>
        /\ px.shape.trailing = <<>> =>
              px.result =
                  POk(<<>>, [i \in 1..Len(px.shape.calls) |-> CallOf(px.shape.calls[i])])
        /\ px.shape.trailing # <<>> => px.result = PErr
        /\ (px.shape.trailing = <<>> /\ TrimThenLen(px.shape)) =>
              \A parsed \in px.result :
                  denote(parsed.value, Argument("Identifier", NameColumn)) =
                      Term(LenName, <<Term(Trim, <<Argument("Identifier", NameColumn)>>)>>)

\* trim(name)|len  (_) has been parsed.
C30_Witness ==
    /\ px.pc = "done"
    /\ px.input = Trim \o <<"(">> \o NameColumn \o <<")", "|">> \o LenName
                  \o <<" ", " ", "(", "_", ")">>
    /\ px.result # PErr

====
